---------------------------- MODULE Spec2Model ----------------------------
(***************************************************************************)
(* A model of the CHORUS continuity tooling: the ledger line codec          *)
(* (chorus/ledger.py), the desire parser and expansion builder              *)
(* (chorus/expansion.py), and the evolution control loop                    *)
(* (chorus/evolution.py).                                                   *)
(*                                                                          *)
(* Text is a sequence of one-character strings, so that escaping, trimming, *)
(* line splitting and the header grammar are computed character by          *)
(* character as the Python code computes them.                              *)
(***************************************************************************)
EXTENDS Integers, Sequences, FiniteSets, TLC

VARIABLES
    \* --- ledger codec run ---
    entry,            \* the LedgerEntry handed to to_ledger_line
    encoded,          \* the outcome of to_ledger_line(entry)
    decoded,          \* the outcome of parse_ledger_line(encoded line)
    cpc,              \* position of the codec run: "built", "encoded", "decoded"
    \* --- a run of the desire parser and the expansion builder ---
    markdown,         \* the text handed to parse_desires
    parsed_desires,   \* the list parse_desires returned
    expansion,        \* what build_expansion_ledger and build_expansion_state gave
    xpc,              \* position of the run: "text", "parsed", "built"
    \* --- a run of the response resolver ---
    given,            \* the reply handed to _parse_response_payload
    resolution,       \* what _parse_response_payload returned or raised
    once_normalized,  \* _normalize_desires_text of the resolved desires
    twice_normalized, \* _normalize_desires_text of once_normalized
    rpc,              \* position of the run: "reply", "resolved", "normalized", "renormalized"
    \* --- the environment ---
    fs,               \* the file system: path -> file
    log,              \* the interaction log (session_log_path), one record per line
    utcnow,           \* the logical wall clock (datetime.now)
    \* --- a Ledger object and its caller ---
    candidate,        \* the LedgerEntry value the caller constructed last
    _entries,         \* Ledger._entries
    returned,         \* the entries of the Ledger materialize_expansion returned last
    view,             \* the list the caller obtained from Ledger.entries last
    lop,              \* the last operation of the caller and whether it raised
    \* --- run_evolution_loop ---
    pc,               \* "idle", "iter", "read", "call", "apply", "cap", "returned", "raised"
    interval,         \* the interval argument
    max_iterations,   \* the max_iterations argument
    iteration,        \* the local iteration
    results,          \* the local results
    current_desires,  \* the local current_desires
    response_text,    \* the reply of the provider in this iteration
    pre,              \* the file system when the iteration started
    \* --- the bootstrap hook of run_evolution_loop ---
    bootstrap_path,   \* the bootstrap_path argument: <<>> is None
    hook_file,        \* the file at bootstrap_path
    hook_calls,       \* what each invocation of the hook was given, in order
    \* --- run_daemon ---
    dpc,              \* "idle", "iter", "cap", "returned", "raised"
    d_interval,       \* the interval argument
    d_max_iterations, \* the max_iterations argument
    d_iteration,      \* the local iteration
    last_signature,   \* the local last_signature: <<>> is None
    d_results,        \* the local results
    d_pre,            \* the file system and the log when the iteration started
    d_signature,      \* run_daemon's local signature: <<>> or <<the signature read>>
    \* --- the dialogue command: main and run_dialogue_turn ---
    turn_pc,          \* "idle", "call", "returned", "raised", then "exited" or "propagated"
    turn_args,        \* the message and the history_limit of the call
    turn_prompt,      \* the messages build_dialogue_messages returned
    turn_out,         \* what the call gave: the reply, the failure, the exit code
    turn_pre,         \* the interaction log when the call started
    turns             \* how many calls were made

parse_vars == <<markdown, parsed_desires, expansion, xpc>>

resolve_vars == <<given, resolution, once_normalized, twice_normalized, rpc>>

hook_vars == <<bootstrap_path, hook_file, hook_calls>>

daemon_vars == <<dpc, d_interval, d_max_iterations, d_iteration, last_signature,
                d_results, d_pre, d_signature>>

dialogue_vars == <<turn_pc, turn_args, turn_prompt, turn_out, turn_pre, turns>>

codec_vars == <<entry, encoded, decoded, cpc, parse_vars, resolve_vars, hook_vars,
               daemon_vars, dialogue_vars>>

env_vars == <<fs, log, utcnow>>

ledger_vars == <<candidate, _entries, returned, view, lop>>

evo_vars == <<pc, interval, max_iterations, iteration, results, current_desires,
             response_text, pre>>

vars == <<codec_vars, env_vars, ledger_vars, evo_vars>>

-----------------------------------------------------------------------------
(* Bounds of the model *)

\* The longest field value of the codec run.
MaxFieldLen == 2

\* The largest iteration cap run_evolution_loop is called with.
MaxIter == 2

\* The most entries the Ledger object holds.
MaxEntries == 2

\* The most times materialize_expansion runs against the ledger path.
MaxClock == 2

\* The most lines of a text handed to parse_desires on its own.
MaxLines == 4

\* The most entries of a "desires" list handed to the resolver on its own.
MaxItems == 3

\* The most lines of a desires text handed to the resolver and normalized.
MaxNormLines == 3

-----------------------------------------------------------------------------
(* Characters and Python's str helpers *)

BS == "\\"
DQ == "\""
NL == "\n"

\* The whitespace characters of the model's alphabet.
Whitespace == {" ", "\n", "\t"}

RECURSIVE lstrip(_)
lstrip(s) ==
    IF s = <<>> THEN <<>>
    ELSE IF Head(s) \in Whitespace THEN lstrip(Tail(s))
    ELSE s

RECURSIVE rstrip(_)
rstrip(s) ==
    IF s = <<>> THEN <<>>
    ELSE IF s[Len(s)] \in Whitespace THEN rstrip(SubSeq(s, 1, Len(s) - 1))
    ELSE s

strip(s) == rstrip(lstrip(s))

startswith(s, p) == Len(p) <= Len(s) /\ SubSeq(s, 1, Len(p)) = p

endswith(s, p) == Len(p) <= Len(s) /\ SubSeq(s, Len(s) - Len(p) + 1, Len(s)) = p

\* str.replace(old, new): left to right, non-overlapping; old is non-empty.
RECURSIVE replace(_, _, _)
replace(s, old, new) ==
    IF Len(s) < Len(old) THEN s
    ELSE IF SubSeq(s, 1, Len(old)) = old
         THEN new \o replace(SubSeq(s, Len(old) + 1, Len(s)), old, new)
         ELSE <<Head(s)>> \o replace(Tail(s), old, new)

\* sep.join(parts)
RECURSIVE join(_, _)
join(sep, parts) ==
    IF parts = <<>> THEN <<>>
    ELSE IF Len(parts) = 1 THEN parts[1]
    ELSE parts[1] \o sep \o join(sep, Tail(parts))

\* The index of the first occurrence of character c in s, 0 when absent.
RECURSIVE find(_, _, _)
find(s, c, i) ==
    IF i > Len(s) THEN 0
    ELSE IF s[i] = c THEN i
    ELSE find(s, c, i + 1)

\* All texts over alphabet of length 0..n
RECURSIVE TextsUpTo(_, _)
TextsUpTo(alphabet, n) ==
    IF n = 0 THEN {<<>>}
    ELSE LET shorter == TextsUpTo(alphabet, n - 1)
         IN  shorter \cup {Append(t, c) : t \in {u \in shorter : Len(u) = n - 1}, c \in alphabet}

-----------------------------------------------------------------------------
(* chorus/ledger.py *)

T_FACT == <<"F", "A", "C", "T">>
T_PREF == <<"P", "R", "E", "F">>
T_PROJECT == <<"P", "R", "O", "J", "E", "C", "T">>
T_DECISION == <<"D", "E", "C", "I", "S", "I", "O", "N">>
T_WARNING == <<"W", "A", "R", "N", "I", "N", "G">>
T_TODO == <<"T", "O", "D", "O">>
T_PATCH == <<"P", "A", "T", "C", "H">>
T_ASSUMPTION == <<"A", "S", "S", "U", "M", "P", "T", "I", "O", "N">>

ALLOWED_ENTRY_TYPES ==
    {T_FACT, T_PREF, T_PROJECT, T_DECISION, T_WARNING, T_TODO, T_PATCH, T_ASSUMPTION}

\* LedgerEntry(ts, type, topic, content, source): a frozen dataclass; its
\* constructor stores the five fields and checks nothing.
LedgerEntry(ts, type, topic, content, source) ==
    [ts |-> ts, type |-> type, topic |-> topic, content |-> content, source |-> source]

NoEntry == LedgerEntry(<<>>, <<>>, <<>>, <<>>, <<>>)

\* validate without the check of the four text fields.
validate_type_only(e) == e.type \in ALLOWED_ENTRY_TYPES

\* LedgerEntry.validate: TRUE when it returns, FALSE when it raises ValueError.
validate(e) ==
    /\ e.type \in ALLOWED_ENTRY_TYPES
    /\ e.ts # <<>>
    /\ e.topic # <<>>
    /\ e.content # <<>>
    /\ e.source # <<>>

escape_nobackslash(value) == replace(value, <<DQ>>, <<BS, DQ>>)

_escape(value) == replace(replace(value, <<BS>>, <<BS, BS>>), <<DQ>>, <<BS, DQ>>)

_unescape(value) == replace(replace(value, <<BS, DQ>>, <<DQ>>), <<BS, BS>>, <<BS>>)

Failure(why) == [ok |-> FALSE, err |-> why, line |-> <<>>, entry |-> NoEntry]

\* LedgerEntry.to_ledger_line
to_ledger_line(e) ==
    IF ~validate(e) THEN Failure("validation")
    ELSE [ok |-> TRUE, err |-> "", entry |-> NoEntry,
          line |-> <<"-", " ", "{", "t", "s", ":", DQ>> \o _escape(e.ts)
                   \o <<DQ, ",", " ", "t", "y", "p", "e", ":", DQ>> \o _escape(e.type)
                   \o <<DQ, ",", " ", "t", "o", "p", "i", "c", ":", DQ>> \o _escape(e.topic)
                   \o <<DQ, ",", " ", "c", "o", "n", "t", "e", "n", "t", ":", DQ>>
                   \o _escape(e.content)
                   \o <<DQ, ",", " ", "s", "o", "u", "r", "c", "e", ":", DQ>>
                   \o _escape(e.source) \o <<DQ, "}">>]

\* The body of the for loop of _split_quoted_fields: st holds the loop's
\* locals (fields, current, in_quotes, escape) before char is processed.
split_step(st, char) ==
    CASE st.escape ->
            [st EXCEPT !.current = Append(@, char), !.escape = FALSE]
      [] ~st.escape /\ char = BS ->
            [st EXCEPT !.current = Append(@, char), !.escape = TRUE]
      [] ~st.escape /\ char = DQ ->
            [st EXCEPT !.current = Append(@, char), !.in_quotes = ~@]
      [] ~st.escape /\ char = "," /\ ~st.in_quotes ->
            [st EXCEPT !.fields = Append(@, strip(st.current)), !.current = <<>>]
      [] OTHER ->
            [st EXCEPT !.current = Append(@, char)]

\* for char in payload[lo..hi]: st = split_step(st, char).  The range is
\* halved so that the evaluation depth stays logarithmic; the first half is
\* computed (left = left) before the second half starts from it.
RECURSIVE split_loop(_, _, _, _)
split_loop(payload, lo, hi, st) ==
    CASE lo > hi -> st
      [] lo = hi -> split_step(st, payload[lo])
      [] OTHER -> LET left == split_loop(payload, lo, (lo + hi) \div 2, st)
                  IN  IF left = left
                      THEN split_loop(payload, (lo + hi) \div 2 + 1, hi, left)
                      ELSE left

_split_quoted_fields(payload) ==
    LET end == split_loop(payload, 1, Len(payload),
                   [fields |-> <<>>, current |-> <<>>, in_quotes |-> FALSE, escape |-> FALSE])
    IN  IF end.in_quotes THEN [ok |-> FALSE, fields |-> <<>>]
        ELSE IF end.current # <<>>
             THEN [ok |-> TRUE, fields |-> Append(end.fields, strip(end.current))]
             ELSE [ok |-> TRUE, fields |-> end.fields]

K_ts == <<"t", "s">>
K_type == <<"t", "y", "p", "e">>
K_topic == <<"t", "o", "p", "i", "c">>
K_content == <<"c", "o", "n", "t", "e", "n", "t">>
K_source == <<"s", "o", "u", "r", "c", "e">>

\* The same loop without the check that a value starts and ends with a
\* double quote: the first and last characters are dropped whatever they are.
RECURSIVE parse_parts_unchecked(_, _, _)
parse_parts_unchecked(parts, i, values) ==
    IF i > Len(parts) THEN [ok |-> TRUE, err |-> "", values |-> values]
    ELSE LET part == parts[i]
             colon == find(part, ":", 1)
         IN  IF colon = 0 THEN [ok |-> FALSE, err |-> "unpack", values |-> {}]
             ELSE LET key == strip(SubSeq(part, 1, colon - 1))
                      raw_value == strip(SubSeq(part, colon + 1, Len(part)))
                  IN  parse_parts_unchecked(parts, i + 1,
                          {kv \in values : kv[1] # key}
                              \cup {<<key, _unescape(SubSeq(raw_value, 2, Len(raw_value) - 1))>>})

\* The for loop of parse_ledger_line over parts[i..]: values is the dict
\* built so far, as a set of <<key, value>> pairs with one pair per key.
RECURSIVE parse_parts(_, _, _)
parse_parts(parts, i, values) ==
    IF i > Len(parts) THEN [ok |-> TRUE, err |-> "", values |-> values]
    ELSE LET part == parts[i]
             colon == find(part, ":", 1)
         IN  IF colon = 0 THEN [ok |-> FALSE, err |-> "unpack", values |-> {}]
             ELSE LET key == strip(SubSeq(part, 1, colon - 1))
                      raw_value == strip(SubSeq(part, colon + 1, Len(part)))
                  IN  IF ~(startswith(raw_value, <<DQ>>) /\ endswith(raw_value, <<DQ>>))
                      THEN [ok |-> FALSE, err |-> "Ledger values must be quoted", values |-> {}]
                      ELSE parse_parts(parts, i + 1,
                               {kv \in values : kv[1] # key}
                                   \cup {<<key, _unescape(SubSeq(raw_value, 2, Len(raw_value) - 1))>>})

HasKey(values, key) == \E kv \in values : kv[1] = key

Lookup(values, key) == (CHOOSE kv \in values : kv[1] = key)[2]

\* parse_ledger_line: ok with the entry, or the failure it raises.
parse_ledger_line(line) ==
    LET trimmed == strip(line)
    IN  IF ~startswith(trimmed, <<"-", " ", "{">>) \/ ~endswith(trimmed, <<"}">>)
        THEN Failure("Invalid ledger line format")
        ELSE LET payload == SubSeq(trimmed, 4, Len(trimmed) - 1)
                 parts == _split_quoted_fields(payload)
             IN  IF ~parts.ok THEN Failure("Unterminated quoted value in ledger line")
                 ELSE LET parsed == parse_parts(parts.fields, 1, {})
                      IN  IF ~parsed.ok THEN Failure(parsed.err)
                          ELSE IF \E k \in {K_ts, K_type, K_topic, K_content, K_source} :
                                      ~HasKey(parsed.values, k)
                               THEN Failure("KeyError")
                          ELSE LET e == LedgerEntry(Lookup(parsed.values, K_ts),
                                                    Lookup(parsed.values, K_type),
                                                    Lookup(parsed.values, K_topic),
                                                    Lookup(parsed.values, K_content),
                                                    Lookup(parsed.values, K_source))
                               IN  IF ~validate(e) THEN Failure("validation")
                                   ELSE [ok |-> TRUE, err |-> "", line |-> <<>>, entry |-> e]

-----------------------------------------------------------------------------
(* chorus/expansion.py: the desire parser *)

Digits == <<"0", "1", "2", "3", "4", "5", "6", "7", "8", "9">>

IsDigit(c) == \E d \in 1..10 : Digits[d] = c

DigitValue(c) == (CHOOSE d \in 1..10 : Digits[d] = c) - 1

\* int(digits)
RECURSIVE int(_)
int(digits) ==
    IF digits = <<>> THEN 0
    ELSE 10 * int(SubSeq(digits, 1, Len(digits) - 1)) + DigitValue(digits[Len(digits)])

\* str(n) for n >= 0
RECURSIVE str(_)
str(n) ==
    IF n < 10 THEN <<Digits[n + 1]>>
    ELSE Append(str(n \div 10), Digits[(n % 10) + 1])

\* str.splitlines() over the model's alphabet, whose only line break is "\n".
RECURSIVE splitlines(_)
splitlines(s) ==
    IF s = <<>> THEN <<>>
    ELSE LET i == find(s, NL, 1)
         IN  IF i = 0 THEN <<s>>
             ELSE <<SubSeq(s, 1, i - 1)>> \o splitlines(SubSeq(s, i + 1, Len(s)))

\* The number of digits s[i..] starts with.
RECURSIVE digit_run(_, _)
digit_run(s, i) ==
    IF i > Len(s) \/ ~IsDigit(s[i]) THEN 0 ELSE 1 + digit_run(s, i + 1)

NoMatch == [matched |-> FALSE, index |-> 0, rest |-> <<>>]

\* re.match(r"^(\d+)[\).]\s+(.*)$", stripped): group 1 as an int, group 2.
header_match(stripped) ==
    LET n == digit_run(stripped, 1)
    IN  IF n = 0 \/ Len(stripped) < n + 2 THEN NoMatch
        ELSE IF stripped[n + 1] \notin {")", "."} THEN NoMatch
        ELSE IF stripped[n + 2] \notin Whitespace THEN NoMatch
        ELSE [matched |-> TRUE,
              index |-> int(SubSeq(stripped, 1, n)),
              rest |-> lstrip(SubSeq(stripped, n + 2, Len(stripped)))]

Desire(index, title, body) == [index |-> index, title |-> title, body |-> body]

\* A finalizer that joins the body lines as collected, blank ones included.
finalize_keep_blanks(current) ==
    Desire(current.index, current.title, strip(join(<<NL>>, current.body_lines)))

\* _finalize_desire
_finalize_desire(current) ==
    Desire(current.index, current.title,
           strip(join(<<NL>>, SelectSeq(current.body_lines, LAMBDA line : line # <<>>))))

NoCurrent == [some |-> FALSE, index |-> 0, title |-> <<>>, body_lines |-> <<>>]

\* The body of the for loop of parse_desires: st holds (desires, current).
parse_step(st, line) ==
    LET stripped == strip(line)
        m == header_match(stripped)
    IN  CASE stripped = <<>> ->
                IF st.current.some /\ st.current.body_lines # <<>>
                THEN [st EXCEPT !.current.body_lines = Append(@, <<>>)]
                ELSE st
          [] stripped # <<>> /\ m.matched ->
                [desires |-> IF st.current.some
                             THEN Append(st.desires, _finalize_desire(st.current))
                             ELSE st.desires,
                 current |-> [some |-> TRUE, index |-> m.index,
                              title |-> strip(m.rest), body_lines |-> <<>>]]
          [] OTHER ->
                IF st.current.some
                THEN [st EXCEPT !.current.body_lines = Append(@, stripped)]
                ELSE st

RECURSIVE parse_loop(_, _, _)
parse_loop(lines, i, st) ==
    IF i > Len(lines) THEN st
    ELSE LET next == parse_step(st, lines[i])
         IN  IF next = next THEN parse_loop(lines, i + 1, next) ELSE st

\* parse_desires
parse_desires(text) ==
    LET end == parse_loop(splitlines(text), 1, [desires |-> <<>>, current |-> NoCurrent])
    IN  IF end.current.some
        THEN Append(end.desires, _finalize_desire(end.current))
        ELSE end.desires

-----------------------------------------------------------------------------
(* chorus/expansion.py and chorus/state.py: the expansion builder *)

PLACEHOLDER ==
    <<"E", "x", "p", "a", "n", "s", "i", "o", "n", " ", "d", "e", "s", "i", "r", "e",
      " ", "c", "a", "p", "t", "u", "r", "e", "d", ".">>

\* clock.isoformat() of the logical clock value n
isoformat(n) == str(n) \o <<":", "0", "0">>

\* LedgerEntry.now
LedgerEntry_now(type, topic, content, source, clock) ==
    LedgerEntry(isoformat(clock), type, topic, content, source)

\* A builder that takes the body as the content even when it is empty.
build_ledger_without_placeholder(desires, source, clock) ==
    LET made == [i \in 1..Len(desires) |->
                    LedgerEntry_now(T_PROJECT, desires[i].title, desires[i].body,
                                    source, clock)]
    IN  [ok |-> \A i \in 1..Len(desires) : validate(made[i]), entries |-> made]

\* build_expansion_ledger: the entries of the Ledger it returns, or the
\* failure Ledger.append raises for the first entry that does not validate.
build_expansion_ledger(desires, source, clock) ==
    LET made == [i \in 1..Len(desires) |->
                    LedgerEntry_now(T_PROJECT, desires[i].title,
                                    IF desires[i].body # <<>> THEN desires[i].body
                                    ELSE PLACEHOLDER,
                                    source, clock)]
    IN  [ok |-> \A i \in 1..Len(desires) : validate(made[i]), entries |-> made]

NoSnapshot == [timestamp |-> <<>>, desires |-> <<>>, desire_count |-> 0]

\* build_expansion_state
build_expansion_state(desires, clock) ==
    [timestamp |-> isoformat(clock), desires |-> desires, desire_count |-> Len(desires)]

\* "\n".join(entry.to_ledger_line() for entry in ledger.entries), followed by
\* "\n" when it is non-empty: the text materialize_expansion writes.
ledger_file_text(entries) ==
    LET ledger_output == join(<<NL>>, [i \in 1..Len(entries) |-> to_ledger_line(entries[i]).line])
    IN  IF ledger_output # <<>> THEN Append(ledger_output, NL) ELSE ledger_output

-----------------------------------------------------------------------------
(* chorus/evolution.py: desires normalization *)

BulletChars == {"-", "*"}

\* re.match(r"^\s*[-*]\s+(.*)$", line): matched, and group 1.  (The source's
\* third bullet character lies outside the model's alphabet.)
bullet_match(line) ==
    LET body == lstrip(line)
    IN  IF Len(body) < 2 THEN [matched |-> FALSE, rest |-> <<>>]
        ELSE IF Head(body) \notin BulletChars \/ body[2] \notin Whitespace
             THEN [matched |-> FALSE, rest |-> <<>>]
        ELSE [matched |-> TRUE, rest |-> lstrip(Tail(body))]

\* An extraction that keeps the bullet marker in front of the item.
RECURSIVE extract_with_marker(_)
extract_with_marker(lines) ==
    IF lines = <<>> THEN <<>>
    ELSE LET m == bullet_match(Head(lines))
             text == strip(m.rest)
         IN  IF m.matched /\ text # <<>>
             THEN <<strip(Head(lines))>> \o extract_with_marker(Tail(lines))
             ELSE extract_with_marker(Tail(lines))

\* _extract_list_items
RECURSIVE _extract_list_items(_)
_extract_list_items(lines) ==
    IF lines = <<>> THEN <<>>
    ELSE LET m == bullet_match(Head(lines))
             text == strip(m.rest)
         IN  IF m.matched /\ text # <<>>
             THEN <<text>> \o _extract_list_items(Tail(lines))
             ELSE _extract_list_items(Tail(lines))

\* A numbering that starts at 0.
numbered_from_zero(items) ==
    join(<<NL>>, [i \in 1..Len(items) |-> str(i - 1) \o <<")", " ">> \o strip(items[i])])

\* _numbered_list
_numbered_list(items) ==
    join(<<NL>>, [i \in 1..Len(items) |-> str(i) \o <<")", " ">> \o strip(items[i])])

\* The index of the first line that is not blank, 0 when there is none.
RECURSIVE first_nonblank(_, _)
first_nonblank(lines, i) ==
    IF i > Len(lines) THEN 0
    ELSE IF strip(lines[i]) # <<>> THEN i
    ELSE first_nonblank(lines, i + 1)

\* A fallback that returns the text as it is, with no line retitled.
normalize_single_verbatim(text) == strip(text)

\* _normalize_single_desire
_normalize_single_desire(text) ==
    LET raw == splitlines(text)
        lines == [i \in 1..Len(raw) |-> rstrip(raw[i])]
        index == first_nonblank(lines, 1)
        retitled == IF index = 0 THEN lines
                    ELSE [lines EXCEPT ![index] = <<"1", ")", " ">> \o strip(lines[index])]
    IN  strip(join(<<NL>>, retitled))

\* A normalization that never asks whether the text already parses.
normalize_without_parse(desires) ==
    LET stripped == strip(desires)
        items == _extract_list_items(splitlines(stripped))
    IN  IF stripped = <<>> THEN <<>>
        ELSE IF items # <<>> THEN _numbered_list(items)
        ELSE _normalize_single_desire(stripped)

\* _normalize_desires_text
_normalize_desires_text(desires) ==
    LET stripped == strip(desires)
        items == _extract_list_items(splitlines(stripped))
    IN  IF stripped = <<>> THEN <<>>
        ELSE IF parse_desires(stripped) # <<>> THEN stripped
        ELSE IF items # <<>> THEN _numbered_list(items)
        ELSE _normalize_single_desire(stripped)

-----------------------------------------------------------------------------
(* The file system: absolute paths are sequences of components. *)

DesiresPath == <<"w", "desires.md">>
LedgerPath == <<"w", "ledger.md">>
StatePath == <<"w", "state.json">>
NotesPath == <<"w", "notes.txt">>
OutsidePath == <<"outside.txt">>

Locs == {DesiresPath, LedgerPath, StatePath, NotesPath, OutsidePath}

\* A file holds text, or the JSON document export_state dumped.
Absent == [exists |-> FALSE, kind |-> "text", text |-> <<>>, json |-> NoSnapshot]

TextFile(text) == [exists |-> TRUE, kind |-> "text", text |-> text, json |-> NoSnapshot]

JsonFile(snapshot) == [exists |-> TRUE, kind |-> "json", text |-> <<>>, json |-> snapshot]

\* Path.write_text
write_text(files, path, text) == [files EXCEPT ![path] = TextFile(text)]

\* export_state: the state file is overwritten with {"timestamp", "state"}.
export_state(files, path, snapshot) == [files EXCEPT ![path] = JsonFile(snapshot)]

\* Path.resolve(): "." and ".." are folded away, ".." at the root stays there.
RECURSIVE resolve_from(_, _)
resolve_from(done, rest) ==
    IF rest = <<>> THEN done
    ELSE IF Head(rest) = "." THEN resolve_from(done, Tail(rest))
    ELSE IF Head(rest) = ".."
         THEN resolve_from(IF done = <<>> THEN <<>> ELSE SubSeq(done, 1, Len(done) - 1), Tail(rest))
    ELSE resolve_from(Append(done, Head(rest)), Tail(rest))

resolve(path) == resolve_from(<<>>, path)

\* base_dir / relative_path: a path that starts at the root ("/") replaces base_dir.
joinpath(base, rel) == IF rel # <<>> /\ Head(rel) = "/" THEN Tail(rel) ELSE base \o rel

\* Path.parents
parents(path) == {SubSeq(path, 1, n) : n \in 0..(Len(path) - 1)}

\* _base_dir
_base_dir(desires_path) == SubSeq(resolve(desires_path), 1, Len(resolve(desires_path)) - 1)

\* materialize_expansion (with expand_from_desires_file): the files after the
\* call, the entries of the returned Ledger and the returned snapshot; ok is
\* FALSE when the call raises (the desires file is missing, or an entry does
\* not validate), which happens before anything is written.
\* materialize_expansion, lines 116-124: the ledger file is opened with "w"
\* and holds the encoded entries only; the state file is overwritten.
persist_expansion(files, ledger, snapshot, ledger_path, state_path) ==
    IF ~ledger.ok
    THEN [ok |-> FALSE, files |-> files, entries |-> <<>>, snapshot |-> NoSnapshot]
    ELSE [ok |-> TRUE,
          files |-> export_state(
                        write_text(files, ledger_path, ledger_file_text(ledger.entries)),
                        state_path, snapshot),
          entries |-> ledger.entries,
          snapshot |-> snapshot]

\* expand_from_desires_file, lines 98-100, followed by the persistence.
expand_from_desires(files, desires, ledger_path, state_path, source, clock) ==
    persist_expansion(files, build_expansion_ledger(desires, source, clock),
                      build_expansion_state(desires, clock), ledger_path, state_path)

\* materialize_expansion: reading a desires file that does not exist raises.
materialize_expansion(files, desires_path, ledger_path, state_path, source, clock) ==
    IF ~files[desires_path].exists
    THEN [ok |-> FALSE, files |-> files, entries |-> <<>>, snapshot |-> NoSnapshot]
    ELSE expand_from_desires(files, parse_desires(files[desires_path].text),
                             ledger_path, state_path, source, clock)

\* The guard of _write_files letting every destination pass.
write_guard_open(base_dir, destination) == TRUE

\* The body of the for loop of _write_files for one item: the guard raises
\* ValueError for a destination outside base_dir, and write_text raises
\* IsADirectoryError for base_dir itself.
write_guard_passes(base_dir, destination) ==
    base_dir \in parents(destination) \/ destination = base_dir

write_one(st, item, base_dir) ==
    LET destination == resolve(joinpath(base_dir, item.path))
    IN  IF ~st.ok THEN st
        ELSE IF ~write_guard_passes(base_dir, destination)
             THEN [st EXCEPT !.ok = FALSE, !.err = "Refusing to write outside base directory"]
        ELSE IF destination = base_dir
             THEN [st EXCEPT !.ok = FALSE, !.err = "IsADirectoryError"]
        ELSE [st EXCEPT !.files = write_text(@, destination, item.content)]

\* _write_files: the files written up to the first failure stay written.
RECURSIVE write_loop(_, _, _, _)
write_loop(items, i, base_dir, st) ==
    IF i > Len(items) THEN st
    ELSE write_loop(items, i + 1, base_dir, write_one(st, items[i], base_dir))

_write_files(items, base_dir, files) ==
    write_loop(items, 1, base_dir, [ok |-> TRUE, err |-> "", files |-> files])

-----------------------------------------------------------------------------
(* chorus/evolution.py: the response resolver *)

(***************************************************************************)
(* A reply of the completion provider.  json.loads is the library's: a     *)
(* reply is given with what decoding its JSON candidate yields.            *)
(*   kind "blank":       the reply is empty after trimming (raw);          *)
(*   kind "object":      a candidate is found and decodes to the object    *)
(*                       with the members desires and files;               *)
(*   kind "undecodable": a candidate is found (raw) and decoding raises;   *)
(*   kind "plain":       no candidate is found in the text (raw).          *)
(* desires: tag "str" (text), "list" (items, each a string or not),        *)
(*          "missing" or "other".                                          *)
(* files:   tag "absent", "null", "list" (items) or "other"; an item has   *)
(*          shape "ok" (string path and content), "notobject" or           *)
(*          "badfield".                                                    *)
(***************************************************************************)
JsonDesires(tag, text, items) == [tag |-> tag, text |-> text, items |-> items]

JsonFiles(tag, items) == [tag |-> tag, items |-> items]

FileItem(path, content) == [shape |-> "ok", path |-> path, content |-> content]

Reply(kind, raw, desires, files) ==
    [kind |-> kind, raw |-> raw, desires |-> desires, files |-> files]

ObjectReply(desires, files) == Reply("object", <<>>, desires, files)

TextReply(kind, raw) ==
    Reply(kind, raw, JsonDesires("missing", <<>>, <<>>), JsonFiles("absent", <<>>))

NoReply == TextReply("none", <<>>)

\* EvolutionPayload
EvolutionPayload(desires, files) == [desires |-> desires, files |-> files]

NoPayload == EvolutionPayload(<<>>, <<>>)

\* What _parse_response_payload gives: (payload, None), (None, reason), or
\* an exception that leaves it (raised).
Resolved(payload) == [ok |-> TRUE, raised |-> FALSE, reason |-> "", payload |-> payload]

Unresolved(reason) == [ok |-> FALSE, raised |-> FALSE, reason |-> reason, payload |-> NoPayload]

\* json.loads raised an exception that is not a JSONDecodeError, the only
\* one line 376 catches: RecursionError for a document nested deeper than
\* the decoder recurses, ValueError for a number with more digits than int()
\* converts.
Unloadable == [ok |-> FALSE, raised |-> TRUE, reason |-> "", payload |-> NoPayload]

K_desires == <<DQ, "d", "e", "s", "i", "r", "e", "s", DQ>>

\* The first index from i on that holds no whitespace.
RECURSIVE skip_ws(_, _)
skip_ws(s, i) == IF i <= Len(s) /\ s[i] \in Whitespace THEN skip_ws(s, i + 1) ELSE i

\* Where group 1 of r'"desires"\s*:\s*"(.*)' starts when the pattern matches
\* at position i, 0 when it does not.
fragment_at(s, i) ==
    IF ~startswith(SubSeq(s, i, Len(s)), K_desires) THEN 0
    ELSE LET colon == skip_ws(s, i + Len(K_desires))
         IN  IF colon > Len(s) \/ s[colon] # ":" THEN 0
             ELSE LET quote == skip_ws(s, colon + 1)
                  IN  IF quote > Len(s) \/ s[quote] # DQ THEN 0 ELSE quote + 1

\* re.search(...): the leftmost match.
RECURSIVE fragment_search(_, _)
fragment_search(s, i) ==
    IF i > Len(s) THEN 0
    ELSE IF fragment_at(s, i) # 0 THEN fragment_at(s, i)
    ELSE fragment_search(s, i + 1)

\* Whether tail matches r'\s*[,}]?\s*$'.
closing_tail(tail) ==
    LET a == skip_ws(tail, 1)
        b == IF a <= Len(tail) /\ tail[a] \in {",", "}"} THEN a + 1 ELSE a
    IN  skip_ws(tail, b) > Len(tail)

\* re.sub(r'"\s*[,}]?\s*$', "", raw)
RECURSIVE drop_closing_quote(_, _)
drop_closing_quote(raw, j) ==
    IF j > Len(raw) THEN raw
    ELSE IF raw[j] = DQ /\ closing_tail(SubSeq(raw, j + 1, Len(raw))) THEN SubSeq(raw, 1, j - 1)
    ELSE drop_closing_quote(raw, j + 1)

\* _recover_desires_text: the recovered text, <<>> for None.
_recover_desires_text(response) ==
    LET start == fragment_search(response, 1)
        raw == strip(drop_closing_quote(rstrip(SubSeq(response, start, Len(response))), 1))
        normalized ==
            replace(replace(replace(replace(replace(raw,
                <<BS, "n">>, <<NL>>), <<BS, "t">>, <<"\t">>), <<BS, "r">>, <<"\r">>),
                <<BS, DQ>>, <<DQ>>), <<BS, BS>>, <<BS>>)
    IN  IF start = 0 THEN <<>>
        ELSE IF raw = <<>> THEN <<>>
        ELSE strip(normalized)

\* _recover_payload_from_invalid_json
_recover_payload_from_invalid_json(response) ==
    LET desires_text == _recover_desires_text(response)
    IN  IF desires_text # <<>> THEN Resolved(EvolutionPayload(desires_text, <<>>))
        ELSE Unresolved("")

\* Checks that pass over a files value that is no list and over every files
\* entry that is no object with string path and content.
resolve_object_skipping(data) ==
    LET desires == IF data.desires.tag = "list"
                   THEN _numbered_list([i \in 1..Len(data.desires.items) |->
                                            data.desires.items[i].text])
                   ELSE data.desires.text
        files == SelectSeq(data.files.items, LAMBDA item : item.shape = "ok")
    IN  IF data.desires.tag = "list" /\ \E i \in 1..Len(data.desires.items) :
                                            ~data.desires.items[i].str
        THEN Unresolved("Response JSON desires list entries must be strings.")
        ELSE IF data.desires.tag \notin {"str", "list"}
        THEN Unresolved("Response JSON must include a 'desires' string.")
        ELSE Resolved(EvolutionPayload(desires,
                 [i \in 1..Len(files) |-> [path |-> files[i].path, content |-> files[i].content]]))

\* The checks of _parse_response_payload on the decoded object.
resolve_object(data) ==
    LET desires == IF data.desires.tag = "list"
                   THEN _numbered_list([i \in 1..Len(data.desires.items) |->
                                            data.desires.items[i].text])
                   ELSE data.desires.text
        files == IF data.files.tag \in {"absent", "null"} THEN <<>> ELSE data.files.items
        bad == {i \in 1..Len(files) : files[i].shape # "ok"}
        first == CHOOSE i \in bad : \A j \in bad : i <= j
    IN  IF data.desires.tag = "list" /\ \E i \in 1..Len(data.desires.items) :
                                            ~data.desires.items[i].str
        THEN Unresolved("Response JSON desires list entries must be strings.")
        ELSE IF data.desires.tag \notin {"str", "list"}
        THEN Unresolved("Response JSON must include a 'desires' string.")
        ELSE IF data.files.tag = "other"
        THEN Unresolved("Response JSON 'files' must be a list.")
        ELSE IF bad # {} /\ files[first].shape = "notobject"
        THEN Unresolved("Each file entry must be an object.")
        ELSE IF bad # {}
        THEN Unresolved("Each file entry must include string 'path' and 'content'.")
        ELSE Resolved(EvolutionPayload(desires,
                 [i \in 1..Len(files) |-> [path |-> files[i].path, content |-> files[i].content]]))

\* _parse_response_payload
_parse_response_payload(response) ==
    LET stripped == strip(response.raw)
        recovered == _recover_payload_from_invalid_json(stripped)
    IN  CASE response.kind = "blank" -> Unresolved("Response was empty.")
          [] response.kind = "object" -> resolve_object(response)
          [] response.kind = "unloadable" -> Unloadable
          [] response.kind = "undecodable" ->
                IF recovered.ok THEN recovered
                ELSE Unresolved("Response JSON could not be parsed.")
          [] OTHER ->
                IF recovered.ok THEN recovered
                ELSE Resolved(EvolutionPayload(stripped, <<>>))

-----------------------------------------------------------------------------
(* chorus/continuity.py: the interaction log *)

\* An InteractionRecord: its role and its content, which is a fixed text
\* (what) built around a reply (the reply itself for what = "reply").
InteractionRecord(role, what, reply) == [role |-> role, what |-> what, reply |-> reply]

\* record_interaction: content that is empty or blank is written as "[empty]".
record_interaction(records, role, what, reply) ==
    IF what = "reply" /\ strip(reply.raw) = <<>> /\ reply.kind # "object"
    THEN Append(records, InteractionRecord(role, "[empty]", NoReply))
    ELSE Append(records, InteractionRecord(role, what, reply))

-----------------------------------------------------------------------------
(* chorus/evolution.py: applying a reply *)

\* The source label the caller passes.
Source == <<"t">>

Outcome(raised, status, reason, files) ==
    [raised |-> raised, status |-> status, reason |-> reason, files |-> files]

\* apply_unchanged taking a failed _write_files for a finished one.
apply_unchanged_unchecked(written) == Outcome(FALSE, "unchanged", "", written.files)

\* _apply_response, lines 306-309: the reply repeats the current desires.
apply_unchanged(written) ==
    IF ~written.ok THEN Outcome(TRUE, written.err, "", written.files)
    ELSE Outcome(FALSE, "unchanged", "", written.files)

\* apply_expanded reporting updated without the materialized files.
apply_expanded_stale(written, expanded) == Outcome(FALSE, "updated", "", written.files)

\* _apply_response, lines 323-331: the desires file is written, then the
\* files of the reply, then ledger and state are materialized.
\* line 325-331: what materialize_expansion made of the files.
apply_expanded(written, expanded) ==
    IF ~expanded.ok THEN Outcome(TRUE, "materialize_expansion", "", written.files)
    ELSE Outcome(FALSE, "updated", "", expanded.files)

apply_updated(written, now) ==
    IF ~written.ok THEN Outcome(TRUE, written.err, "", written.files)
    ELSE apply_expanded(written,
             materialize_expansion(written.files, DesiresPath, LedgerPath, StatePath,
                                   Source, now))

\* _apply_response: the status and reason it returns and the files it leaves,
\* or what it raises (raised) and the files it leaves then.
\* _apply_response, lines 302-331, for a resolved payload and its normalized
\* desires text.
apply_payload(payload, desires_markdown, current, files, now) ==
    IF strip(desires_markdown) = <<>>
    THEN Outcome(FALSE, "invalid",
                 "Response JSON must include a non-empty 'desires' string.", files)
    ELSE IF strip(desires_markdown) = strip(current)
    THEN apply_unchanged(_write_files(payload.files, _base_dir(DesiresPath), files))
    ELSE IF parse_desires(desires_markdown) = <<>>
    THEN Outcome(FALSE, "invalid", "Desires must be a numbered list like '1) Title'.", files)
    ELSE apply_updated(
             _write_files(payload.files, _base_dir(DesiresPath),
                          write_text(files, DesiresPath, Append(strip(desires_markdown), NL))),
             now)

\* _apply_response, lines 297-300, and the rest for a resolved payload.
apply_resolved(resolved, current, files, now) ==
    IF resolved.raised THEN Outcome(TRUE, "json.loads", "", files)
    ELSE IF ~resolved.ok
    THEN Outcome(FALSE, "invalid",
                 IF resolved.reason # "" THEN resolved.reason
                 ELSE "Response did not contain a desires payload.", files)
    ELSE apply_payload(resolved.payload, _normalize_desires_text(resolved.payload.desires),
                       current, files, now)

_apply_response(reply, current, files, now) ==
    apply_resolved(_parse_response_payload(reply), current, files, now)

\* _read_text
_read_text(file) == IF ~file.exists THEN <<>> ELSE strip(file.text)

\* _read_json raises when the file exists and does not hold a JSON document;
\* none of the texts the model writes is one.
read_json_raises(file) == file.exists /\ file.kind # "json"

-----------------------------------------------------------------------------
(* The parts of the state a run does not use stay as they are here. *)

NoFiles == [p \in Locs |-> Absent]

\* No ledger was built and no snapshot taken.
NoExpansion == [raised |-> FALSE, source |-> <<>>, entries |-> <<>>, snapshot |-> NoSnapshot]

ParseIdle ==
    /\ markdown = <<>>
    /\ parsed_desires = <<>>
    /\ expansion = NoExpansion
    /\ xpc = "off"

ResolveIdle ==
    /\ given = NoReply
    /\ resolution = Unresolved("")
    /\ once_normalized = <<>>
    /\ twice_normalized = <<>>
    /\ rpc = "off"

-----------------------------------------------------------------------------
(* chorus/evolution.py: the bootstrap hook *)

\* A Python source file and what executing it does: whether compile() and
\* the module body succeed, what the module binds the name bootstrap to
\* ("function", "value", "nothing"), and whether calling it raises.
HookFile(text, compiles, binds, raises) ==
    [exists |-> TRUE, text |-> text, compiles |-> compiles, binds |-> binds,
     raises |-> raises]

NoHookFile ==
    [exists |-> FALSE, text |-> <<>>, compiles |-> FALSE, binds |-> "nothing",
     raises |-> FALSE]

HookPath == <<"w", "bootstrap.py">>

SessionLogPath == <<"w", "session.jsonl">>

NoContext ==
    [iteration |-> 0, desires_path |-> <<>>, ledger_path |-> <<>>, state_path |-> <<>>,
     session_log_path |-> <<>>, source |-> <<>>, base_dir |-> <<>>]

HookOutcome(called, raised, context) ==
    [called |-> called, raised |-> raised, context |-> context]

\* A hook runner that loses every failure of the hook.
run_bootstrap_swallowing(path, file, i, desires_path, ledger_path, state_path, session_log_path, source) ==
    IF path = <<>> \/ ~file.exists THEN HookOutcome(FALSE, FALSE, NoContext)
    ELSE IF ~file.compiles \/ file.binds # "function"
         THEN HookOutcome(FALSE, FALSE, NoContext)
         ELSE HookOutcome(TRUE, FALSE,
                  [iteration |-> i, desires_path |-> desires_path,
                   ledger_path |-> ledger_path, state_path |-> state_path,
                   session_log_path |-> session_log_path, source |-> file.text,
                   base_dir |-> _base_dir(desires_path)])

\* _maybe_run_bootstrap: line 519 binds the name source to the text read
\* from the hook file, and line 530 puts that into the context.
_maybe_run_bootstrap(path, file, i, desires_path, ledger_path, state_path, session_log_path, source) ==
    IF path = <<>> THEN HookOutcome(FALSE, FALSE, NoContext)
    ELSE IF ~file.exists THEN HookOutcome(FALSE, FALSE, NoContext)
    ELSE LET rebound == file.text
         IN  IF ~file.compiles THEN HookOutcome(FALSE, TRUE, NoContext)
             ELSE IF file.binds # "function" THEN HookOutcome(FALSE, TRUE, NoContext)
             ELSE HookOutcome(TRUE, file.raises,
                      [iteration |-> i, desires_path |-> desires_path,
                       ledger_path |-> ledger_path, state_path |-> state_path,
                       session_log_path |-> session_log_path, source |-> rebound,
                       base_dir |-> _base_dir(desires_path)])

HookIdle ==
    /\ bootstrap_path = <<>>
    /\ hook_file = NoHookFile
    /\ hook_calls = <<>>

DaemonIdle ==
    /\ dpc = "off"
    /\ d_interval = 1
    /\ d_max_iterations = <<>>
    /\ d_iteration = 0
    /\ last_signature = <<>>
    /\ d_results = <<>>
    /\ d_pre = [files |-> NoFiles, records |-> <<>>]
    /\ d_signature = <<>>

RunsIdle ==
    /\ entry = NoEntry /\ encoded = Failure("") /\ decoded = Failure("") /\ cpc = "off"
    /\ ParseIdle
    /\ ResolveIdle

\* No call of the dialogue command was made.
NoTurn == [failed |-> FALSE, error |-> "", response |-> <<>>, exit_code |-> <<>>,
           stderr |-> ""]

DialogueIdle ==
    /\ turn_pc = "off"
    /\ turn_args = [message |-> <<>>, history_limit |-> 0]
    /\ turn_prompt = <<>>
    /\ turn_out = NoTurn
    /\ turn_pre = <<>>
    /\ turns = 0

CodecIdle ==
    /\ RunsIdle
    /\ HookIdle
    /\ DaemonIdle
    /\ DialogueIdle

\* No list was obtained from the entries property.
NoView == [held |-> FALSE, shared |-> FALSE, items |-> <<>>]

LedgerIdle ==
    /\ candidate = NoEntry
    /\ _entries = <<>>
    /\ returned = <<>>
    /\ view = NoView
    /\ lop = [op |-> "none", raised |-> FALSE]

EvoIdle ==
    /\ pc = "off"
    /\ interval = 1
    /\ max_iterations = <<>>
    /\ iteration = 0
    /\ results = <<>>
    /\ current_desires = <<>>
    /\ response_text = NoReply
    /\ pre = NoFiles

-----------------------------------------------------------------------------
(* The codec run: build an entry, encode it, decode the line. *)

CodecChars == {"a", DQ, BS, ",", ":", "{", "}", " "}

PlainTexts == {<<"a", BS>>}

TypeSamples == {T_FACT, <<"B", "A", "D">>}

RichTexts == TextsUpTo(CodecChars, MaxFieldLen)

CodecEntries ==
    {LedgerEntry(a, ty, b, c, d) :
        ty \in TypeSamples, a \in RichTexts, b \in PlainTexts, c \in PlainTexts, d \in PlainTexts}
    \cup {LedgerEntry(a, ty, b, c, d) :
        ty \in TypeSamples, a \in PlainTexts, b \in RichTexts, c \in PlainTexts, d \in PlainTexts}
    \cup {LedgerEntry(a, ty, b, c, d) :
        ty \in TypeSamples, a \in PlainTexts, b \in PlainTexts, c \in RichTexts, d \in PlainTexts}
    \cup {LedgerEntry(a, ty, b, c, d) :
        ty \in TypeSamples, a \in PlainTexts, b \in PlainTexts, c \in PlainTexts, d \in RichTexts}

CodecInit ==
    /\ entry \in CodecEntries
    /\ encoded = Failure("")
    /\ decoded = Failure("")
    /\ cpc = "built"
    /\ ParseIdle
    /\ ResolveIdle
    /\ fs = NoFiles /\ log = <<>> /\ utcnow = 0
    /\ LedgerIdle
    /\ EvoIdle
    /\ HookIdle
    /\ DaemonIdle
    /\ DialogueIdle

Encode ==
    /\ cpc = "built"
    /\ encoded' = to_ledger_line(entry)
    /\ cpc' = "encoded"
    /\ UNCHANGED <<entry, decoded, parse_vars, resolve_vars, env_vars, ledger_vars, evo_vars,
                   hook_vars, daemon_vars,
                   dialogue_vars>>

Decode ==
    /\ cpc = "encoded"
    /\ encoded.ok
    /\ decoded' = parse_ledger_line(encoded.line)
    /\ cpc' = "decoded"
    /\ UNCHANGED <<entry, encoded, parse_vars, resolve_vars, env_vars, ledger_vars, evo_vars,
                   hook_vars, daemon_vars,
                   dialogue_vars>>

CodecNext == Encode \/ Decode

SpecCodec == CodecInit /\ [][CodecNext]_vars

-----------------------------------------------------------------------------
(* C1: for every valid LedgerEntry e, with field values that may hold double *)
(* quotes, backslashes, commas, colons, braces and spaces,                   *)
(* parse_ledger_line(e.to_ledger_line()) returns an entry equal to e.        *)
C1_RoundTrip ==
    /\ (cpc # "built" /\ validate(entry)) => encoded.ok
    /\ (cpc = "decoded" /\ validate(entry)) => (decoded.ok /\ decoded.entry = entry)

C1_Witness ==
    /\ cpc = "decoded"
    /\ decoded.ok
    /\ \E i \in 1..Len(entry.content) : entry.content[i] = BS
    /\ \E i \in 1..Len(entry.content) : entry.content[i] = DQ

-----------------------------------------------------------------------------
(* run_evolution_loop: the texts and replies the provider is drawn from. *)

\* "1) A\nb\n": the desires file before the loop starts.
TXT_A == <<"1", ")", " ", "A", NL, "b", NL>>

\* "1) B\nc\nd": one desire whose body has two lines.
TXT_B == <<"1", ")", " ", "B", NL, "c", NL, "d">>

\* "Not a numbered list."
TXT_FREE == <<"N", "o", "t", " ", "a", " ", "n", "u", "m", "b", "e", "r", "e", "d", " ",
              "l", "i", "s", "t", ".">>

\* "- x\n- y"
TXT_BULLETS == <<"-", " ", "x", NL, "-", " ", "y">>

\* {"desires": "1) C<newline>"} : not JSON, the desires fragment is recoverable
TXT_BROKEN == <<"{">> \o K_desires \o <<":", " ", DQ, "1", ")", " ", "C", NL, DQ, "}">>

\* {"x" : not JSON, nothing to recover
TXT_GARBLED == <<"{", DQ, "x", DQ>>

C_V1 == <<"v", "1">>

C_ZZ == <<"z", "z">>

StrDesires(text) == JsonDesires("str", text, <<>>)

F_NOTES == JsonFiles("list", <<FileItem(<<"notes.txt">>, C_V1)>>)

\* the second path leaves the directory of the desires file
F_ESCAPE == JsonFiles("list", <<FileItem(<<"notes.txt">>, C_ZZ),
                                FileItem(<<"..", "outside.txt">>, C_ZZ)>>)

\* paths that resolve to the state file and to the desires file
F_STATE == JsonFiles("list", <<FileItem(<<"state.json">>, C_ZZ)>>)

F_DESIRES == JsonFiles("list", <<FileItem(<<"sub", "..", "desires.md">>, C_ZZ)>>)

F_LEDGER == JsonFiles("list", <<FileItem(<<"ledger.md">>, C_ZZ)>>)

\* a path that starts at the root
F_ABSOLUTE == JsonFiles("list", <<FileItem(<<"/", "outside.txt">>, C_V1)>>)

\* the second entry has no string content
F_BAD == JsonFiles("list", <<FileItem(<<"notes.txt">>, C_V1),
                             [shape |-> "badfield", path |-> <<>>, content |-> <<>>]>>)

\* the first entry is a number, not an object
F_NOTOBJECT == JsonFiles("list", <<[shape |-> "notobject", path |-> <<>>, content |-> <<>>],
                                   FileItem(<<"notes.txt">>, C_V1)>>)

\* "files" holds an object or a string, not a list
F_NOTLIST == JsonFiles("other", <<>>)

R_FREE == ObjectReply(StrDesires(TXT_FREE), JsonFiles("absent", <<>>))

\* The opening of a JSON object that holds an array nested some thousand
\* levels deep; the kind of the reply says what json.loads does with it.
TXT_DEEP == <<"{", DQ, "x", DQ, ":", "[", "[", "[">>

\* "desires": "1) A" with no braces around it
TXT_FRAGMENT == K_desires \o <<":", " ", DQ, "1", ")", " ", "A", DQ>>

\* "f \n\n g": free text of two lines with a blank line between them
TXT_PROSE == <<"f", " ", NL, NL, " ", "g">>

\* "note\n2. B": a line of free text before a numbered header
TXT_PREFACED == <<"n", "o", "t", "e", NL, "2", ".", " ", "B">>

Replies ==
    { ObjectReply(StrDesires(TXT_A), F_NOTES),
      ObjectReply(StrDesires(TXT_A), F_ESCAPE),
      ObjectReply(StrDesires(TXT_A), F_STATE),
      ObjectReply(StrDesires(TXT_B), F_NOTES),
      ObjectReply(StrDesires(TXT_B), F_DESIRES),
      ObjectReply(StrDesires(TXT_B), F_ESCAPE),
      ObjectReply(StrDesires(TXT_B), F_BAD),
      ObjectReply(StrDesires(TXT_B), F_NOTOBJECT),
      ObjectReply(StrDesires(TXT_B), F_NOTLIST),
      ObjectReply(StrDesires(TXT_A), F_NOTLIST),
      ObjectReply(StrDesires(TXT_B), F_LEDGER),
      ObjectReply(StrDesires(TXT_A), F_ABSOLUTE),
      ObjectReply(StrDesires(<<" ">>), F_NOTES),
      ObjectReply(JsonDesires("missing", <<>>, <<>>), F_NOTES),
      ObjectReply(JsonDesires("list", <<>>, <<[str |-> TRUE, text |-> <<"B">>]>>), F_NOTES),
      ObjectReply(JsonDesires("list", <<>>, <<[str |-> FALSE, text |-> <<>>]>>), F_NOTES),
      R_FREE,
      TextReply("blank", <<" ">>),
      TextReply("plain", TXT_BULLETS),
      TextReply("plain", TXT_FREE),
      TextReply("plain", TXT_PROSE),
      TextReply("plain", TXT_PREFACED),
      TextReply("plain", TXT_FRAGMENT),
      TextReply("plain", TXT_A),
      TextReply("undecodable", TXT_BROKEN),
      TextReply("undecodable", TXT_GARBLED),
      TextReply("unloadable", TXT_DEEP) }

-----------------------------------------------------------------------------
(* run_evolution_loop *)

EvolutionResult(i, timestamp, status, reason) ==
    [iteration |-> i, timestamp |-> timestamp, status |-> status, reason |-> reason]

\* The files before the loop: the desires file with ledger and state
\* materialized from it, or nothing at all.
Bootstrapped ==
    materialize_expansion([NoFiles EXCEPT ![DesiresPath] = TextFile(TXT_A)],
                          DesiresPath, LedgerPath, StatePath, Source, 0).files

Init ==
    /\ CodecIdle
    /\ LedgerIdle
    /\ fs \in {Bootstrapped, NoFiles}
    /\ log = <<>>
    /\ utcnow = 0
    /\ pc = "idle"
    /\ interval \in {0, 1}
    /\ max_iterations \in {<<>>} \cup {<<n>> : n \in 1..MaxIter}
    /\ iteration = 0
    /\ results = <<>>
    /\ current_desires = <<>>
    /\ response_text = NoReply
    /\ pre = fs

\* lines 58-59
EvoRejectInterval ==
    /\ pc = "idle" /\ interval <= 0
    /\ pc' = "raised"
    /\ UNCHANGED <<codec_vars, env_vars, ledger_vars, interval, max_iterations, iteration,
                   results, current_desires, response_text, pre>>

\* A start that does not look at the interval.
EvoStart_unchecked ==
    /\ pc = "idle"
    /\ log' = record_interaction(log, "system", "started", NoReply)
    /\ pc' = "iter"
    /\ UNCHANGED <<codec_vars, fs, utcnow, ledger_vars, interval, max_iterations, iteration,
                   results, current_desires, response_text, pre>>

\* lines 60-84
EvoStart ==
    /\ pc = "idle" /\ interval > 0
    /\ log' = record_interaction(log, "system", "started", NoReply)
    /\ pc' = "iter"
    /\ UNCHANGED <<codec_vars, fs, utcnow, ledger_vars, interval, max_iterations, iteration,
                   results, current_desires, response_text, pre>>

\* What an invocation of the hook was given and which source it ran.
HookCall(outcome, file) == [context |-> outcome.context, module |-> file.text]

\* lines 86-97, given what _maybe_run_bootstrap did.
Hooked(outcome) ==
    /\ hook_calls' = IF outcome.called THEN Append(hook_calls, HookCall(outcome, hook_file))
                     ELSE hook_calls
    /\ pc' = IF outcome.raised THEN "raised" ELSE "read"

\* lines 86-97: the iteration is counted and the bootstrap hook, loaded from
\* its file, runs.
EvoHook ==
    /\ pc = "iter" /\ iteration < MaxIter
    /\ iteration' = iteration + 1
    /\ Hooked(_maybe_run_bootstrap(bootstrap_path, hook_file, iteration + 1, DesiresPath,
                                   LedgerPath, StatePath, SessionLogPath, Source))
    /\ UNCHANGED <<entry, encoded, decoded, cpc, parse_vars, resolve_vars, daemon_vars,
                   bootstrap_path, hook_file, env_vars, ledger_vars, interval,
                   max_iterations, results, current_desires, response_text, pre,
                   dialogue_vars>>

\* lines 98-108: the iteration reads the desires, builds the messages
\* (_read_json raises on a state file that is not JSON) and logs the prompt.
EvoBegin ==
    /\ pc = "read"
    /\ utcnow' = utcnow + 1
    /\ pre' = fs
    /\ current_desires' = _read_text(fs[DesiresPath])
    /\ IF read_json_raises(fs[StatePath])
       THEN pc' = "raised" /\ UNCHANGED log
       ELSE /\ pc' = "call"
            /\ log' = record_interaction(log, "user", "prompt", NoReply)
    /\ UNCHANGED <<codec_vars, fs, ledger_vars, interval, max_iterations, iteration, results,
                   response_text>>

\* The provider's reply taken without the assistant record.
EvoProviderReturns_unlogged ==
    /\ pc = "call"
    /\ \E r \in Replies : response_text' = r
    /\ pc' = "apply"
    /\ UNCHANGED <<codec_vars, env_vars, ledger_vars, interval, max_iterations, iteration,
                   results, current_desires, pre>>

\* lines 111-113, 138-143
EvoProviderReturns ==
    /\ pc = "call"
    /\ \E r \in Replies :
          /\ response_text' = r
          /\ log' = record_interaction(log, "assistant", "reply", r)
    /\ pc' = "apply"
    /\ UNCHANGED <<codec_vars, fs, utcnow, ledger_vars, interval, max_iterations, iteration,
                   results, current_desires, pre>>

\* The provider's failure leaving the loop instead of being caught.
EvoProviderRaises_uncaught ==
    /\ pc = "call"
    /\ pc' = "raised"
    /\ UNCHANGED <<codec_vars, env_vars, ledger_vars, interval, max_iterations, iteration,
                   results, current_desires, response_text, pre>>

\* lines 114-137
EvoProviderRaises ==
    /\ pc = "call"
    /\ log' = record_interaction(log, "system", "error", NoReply)
    /\ results' = Append(results, EvolutionResult(iteration, utcnow, "error", ""))
    /\ pc' = "cap"
    /\ UNCHANGED <<codec_vars, fs, utcnow, ledger_vars, interval, max_iterations, iteration,
                   current_desires, response_text, pre>>

\* log_outcome without the record of the raw reply.
log_outcome_noraw(records, out, reply) ==
    IF out.reason # ""
    THEN record_interaction(records, "system", "status", Reply(out.status, <<>>,
                                JsonDesires("missing", <<>>, <<>>),
                                JsonFiles("absent", <<>>)))
    ELSE records

\* The records lines 160-171 add to the log.
log_outcome(records, out, reply) ==
    LET raw == IF out.status = "invalid"
               THEN record_interaction(records, "system", "raw", reply)
               ELSE records
    IN  IF out.reason # ""
        THEN record_interaction(raw, "system", "status", Reply(out.status, <<>>,
                                    JsonDesires("missing", <<>>, <<>>),
                                    JsonFiles("absent", <<>>)))
        ELSE raw

\* lines 144-181, given what _apply_response returned or raised.
Applied(out) ==
    /\ fs' = out.files
    /\ IF out.raised
       THEN pc' = "raised" /\ UNCHANGED <<results, log>>
       ELSE /\ pc' = "cap"
            /\ results' = Append(results,
                            EvolutionResult(iteration, utcnow, out.status, out.reason))
            /\ log' = log_outcome(log, out, response_text)

\* lines 144-181
EvoApply ==
    /\ pc = "apply"
    /\ Applied(_apply_response(response_text, current_desires, fs, utcnow))
    /\ UNCHANGED <<codec_vars, utcnow, ledger_vars, interval, max_iterations, iteration,
                   current_desires, response_text, pre>>

\* A cap check that lets one pass too many through.
EvoCap_late ==
    /\ pc = "cap"
    /\ pc' = IF max_iterations # <<>> /\ iteration > max_iterations[1]
             THEN "returned" ELSE "iter"
    /\ UNCHANGED <<codec_vars, env_vars, ledger_vars, interval, max_iterations, iteration,
                   results, current_desires, response_text, pre>>

\* lines 183-185
EvoCap ==
    /\ pc = "cap"
    /\ pc' = IF max_iterations # <<>> /\ iteration >= max_iterations[1]
             THEN "returned" ELSE "iter"
    /\ UNCHANGED <<codec_vars, env_vars, ledger_vars, interval, max_iterations, iteration,
                   results, current_desires, response_text, pre>>

Next ==
    \/ EvoRejectInterval
    \/ EvoStart
    \/ EvoHook
    \/ EvoBegin
    \/ EvoProviderReturns
    \/ EvoProviderRaises
    \/ EvoApply
    \/ EvoCap

Spec == Init /\ [][Next]_vars

-----------------------------------------------------------------------------
(* run_evolution_loop with a bootstrap hook, and a provider that rewrites    *)
(* the hook file before it answers.                                          *)

T_V1 == <<"v", "1">>

T_V2 == <<"v", "2">>

\* def bootstrap(context): ... , in two versions
HOOK_V1 == HookFile(T_V1, TRUE, "function", FALSE)

HOOK_V2 == HookFile(T_V2, TRUE, "function", FALSE)

\* def bootstrap(context): raise RuntimeError
HOOK_RAISES == HookFile(<<"r">>, TRUE, "function", TRUE)

\* bootstrap = 3
HOOK_VALUE == HookFile(<<"n">>, TRUE, "value", FALSE)

\* x = 1
HOOK_NOTHING == HookFile(<<"x">>, TRUE, "nothing", FALSE)

\* def (:
HOOK_BROKEN == HookFile(<<"(">>, FALSE, "nothing", FALSE)

HookSamples ==
    {NoHookFile, HOOK_V1, HOOK_V2, HOOK_RAISES, HOOK_VALUE, HOOK_NOTHING, HOOK_BROKEN}

HookReplies ==
    { ObjectReply(StrDesires(TXT_A), F_NOTES),
      ObjectReply(StrDesires(TXT_B), F_NOTES),
      ObjectReply(StrDesires(TXT_A), F_ESCAPE),
      TextReply("blank", <<" ">>) }

HookInit ==
    /\ RunsIdle
    /\ DaemonIdle
    /\ DialogueIdle
    /\ LedgerIdle
    /\ fs = Bootstrapped
    /\ log = <<>>
    /\ utcnow = 0
    /\ pc = "idle"
    /\ interval = 1
    /\ max_iterations \in {<<>>} \cup {<<n>> : n \in 1..MaxIter}
    /\ iteration = 0
    /\ results = <<>>
    /\ current_desires = <<>>
    /\ response_text = NoReply
    /\ pre = fs
    /\ bootstrap_path \in {<<>>, <<HookPath>>}
    /\ hook_file \in HookSamples
    /\ hook_calls = <<>>

\* lines 111-113, 138-143, with the provider of the test: it may write the
\* hook file anew before it returns its reply.
HookProviderReturns ==
    /\ pc = "call"
    /\ hook_file' \in HookSamples
    /\ \E r \in HookReplies :
          /\ response_text' = r
          /\ log' = record_interaction(log, "assistant", "reply", r)
    /\ pc' = "apply"
    /\ UNCHANGED <<entry, encoded, decoded, cpc, parse_vars, resolve_vars, daemon_vars,
                   bootstrap_path, hook_calls, fs, utcnow, ledger_vars, interval,
                   max_iterations, iteration, results, current_desires, pre,
                   dialogue_vars>>

HookNext ==
    \/ EvoStart
    \/ EvoHook
    \/ EvoBegin
    \/ HookProviderReturns
    \/ EvoProviderRaises
    \/ EvoApply
    \/ EvoCap

SpecHook == HookInit /\ [][HookNext]_vars

-----------------------------------------------------------------------------
(* chorus/daemon.py: run_daemon, with the desires file edited or deleted     *)
(* outside the program while the daemon sleeps.                              *)

\* The most passes of the daemon loop.
MaxDaemonIter == 3

DaemonResult(i, timestamp, status) ==
    [iteration |-> i, timestamp |-> timestamp, status |-> status]

\* hashlib.sha256(...).hexdigest(): equal for equal texts, and taken to
\* differ for different ones.
sha256(payload) == [hexdigest_of |-> payload]

\* _read_signature: the length and the digest of the text of the file.
_read_signature(file) == <<Len(file.text), sha256(file.text)>>

Continuity(ok, files, records, timestamp) ==
    [ok |-> ok, files |-> files, records |-> records, timestamp |-> timestamp]

\* bootstrap_continuity without the record in the interaction log.
bootstrap_unrecorded(files, records, desires_path, ledger_path, state_path, source, clock) ==
    LET out == materialize_expansion(files, desires_path, ledger_path, state_path, source,
                                     clock)
    IN  Continuity(out.ok, out.files, records, out.snapshot.timestamp)

\* bootstrap_continuity: materialize_expansion, then one system record.
bootstrap_continuity(files, records, desires_path, ledger_path, state_path, source, clock) ==
    LET out == materialize_expansion(files, desires_path, ledger_path, state_path, source,
                                     clock)
    IN  IF ~out.ok THEN Continuity(FALSE, files, records, <<>>)
        ELSE Continuity(TRUE, out.files,
                        record_interaction(records, "system", "bootstrap", NoReply),
                        out.snapshot.timestamp)

Pass(raised, status, timestamp, files, records, last) ==
    [raised |-> raised, status |-> status, timestamp |-> timestamp, files |-> files,
     records |-> records, last_signature |-> last]

\* lines 42-60, for a signature that differs from the last one.
daemon_changed(files, records, last, signature, clock) ==
    IF last = <<>>
    THEN LET out == bootstrap_continuity(files, records, DesiresPath, LedgerPath, StatePath,
                                         Source, clock)
         IN  IF ~out.ok THEN Pass(TRUE, "", <<>>, files, records, last)
             ELSE Pass(FALSE, "bootstrapped", out.timestamp, out.files, out.records,
                       <<signature>>)
    ELSE LET out == materialize_expansion(files, DesiresPath, LedgerPath, StatePath, Source,
                                          clock)
         IN  IF ~out.ok THEN Pass(TRUE, "", <<>>, files, records, last)
             ELSE Pass(FALSE, "expanded", out.snapshot.timestamp, out.files, records,
                       <<signature>>)

\* A pass that takes every signature for a changed one.
daemon_pass_eager(files, records, last, clock) ==
    IF ~files[DesiresPath].exists THEN Pass(TRUE, "", <<>>, files, records, last)
    ELSE daemon_changed(files, records, last, _read_signature(files[DesiresPath]), clock)

\* lines 40-63: one pass of the loop up to the status; reading the
\* signature of a desires file that does not exist raises.
daemon_pass(files, records, last, clock) ==
    IF ~files[DesiresPath].exists THEN Pass(TRUE, "", <<>>, files, records, last)
    ELSE IF <<_read_signature(files[DesiresPath])>> # last
         THEN daemon_changed(files, records, last, _read_signature(files[DesiresPath]),
                             clock)
         ELSE Pass(FALSE, "unchanged", isoformat(clock), files, records, last)

\* "1) C\nb\n": as long as TXT_A, with another title
TXT_C == <<"1", ")", " ", "C", NL, "b", NL>>

\* The texts the desires file gets.
DaemonTexts == {TXT_A, TXT_B, TXT_C, TXT_FREE}

DaemonInit ==
    /\ RunsIdle
    /\ HookIdle
    /\ DialogueIdle
    /\ LedgerIdle
    /\ EvoIdle
    /\ fs \in {[NoFiles EXCEPT ![DesiresPath] = TextFile(text)] : text \in DaemonTexts}
              \cup {NoFiles}
    /\ log = <<>>
    /\ utcnow = 0
    /\ dpc = "idle"
    /\ d_interval \in {0, 1}
    /\ d_max_iterations \in {<<>>} \cup {<<n>> : n \in 1..MaxDaemonIter}
    /\ d_iteration = 0
    /\ last_signature = <<>>
    /\ d_results = <<>>
    /\ d_pre = [files |-> fs, records |-> log]
    /\ d_signature = <<>>

\* lines 32-33
DaemonRejectInterval ==
    /\ dpc = "idle" /\ d_interval <= 0
    /\ dpc' = "raised"
    /\ UNCHANGED <<entry, encoded, decoded, cpc, parse_vars, resolve_vars, hook_vars,
                   env_vars, ledger_vars, evo_vars, d_interval, d_max_iterations,
                   d_iteration, last_signature, d_results, d_pre, d_signature,
                   dialogue_vars>>

\* lines 34-36
DaemonStart ==
    /\ dpc = "idle" /\ d_interval > 0
    /\ dpc' = "iter"
    /\ UNCHANGED <<entry, encoded, decoded, cpc, parse_vars, resolve_vars, hook_vars,
                   env_vars, ledger_vars, evo_vars, d_interval, d_max_iterations,
                   d_iteration, last_signature, d_results, d_pre, d_signature,
                   dialogue_vars>>

\* lines 41-71, given what the pass numbered i did.
PassedAs(out, i) ==
    /\ fs' = out.files
    /\ log' = out.records
    /\ last_signature' = out.last_signature
    /\ IF out.raised
       THEN dpc' = "raised" /\ UNCHANGED d_results
       ELSE /\ dpc' = "cap"
            /\ d_results' = Append(d_results, DaemonResult(i, out.timestamp, out.status))

\* lines 39-71, given what the pass did.
Passed(out) == PassedAs(out, d_iteration + 1)

\* lines 39-71
DaemonIterate ==
    /\ dpc = "iter" /\ d_iteration < MaxDaemonIter
    /\ d_iteration' = d_iteration + 1
    /\ utcnow' = utcnow + 1
    /\ d_pre' = [files |-> fs, records |-> log]
    /\ Passed(daemon_pass(fs, log, last_signature, utcnow + 1))
    /\ UNCHANGED <<entry, encoded, decoded, cpc, parse_vars, resolve_vars, hook_vars,
                   ledger_vars, evo_vars, d_interval, d_max_iterations, d_signature,
                   dialogue_vars>>

\* lines 73-75
DaemonCap ==
    /\ dpc = "cap"
    /\ dpc' = IF d_max_iterations # <<>> /\ d_iteration >= d_max_iterations[1]
              THEN "returned" ELSE "iter"
    /\ UNCHANGED <<entry, encoded, decoded, cpc, parse_vars, resolve_vars, hook_vars,
                   env_vars, ledger_vars, evo_vars, d_interval, d_max_iterations,
                   d_iteration, last_signature, d_results, d_pre, d_signature,
                   dialogue_vars>>

\* While the daemon sleeps the desires file is written anew or deleted.
DaemonEditDesires ==
    /\ dpc = "iter" /\ d_iteration > 0
    /\ \E file \in {TextFile(text) : text \in DaemonTexts} \cup {Absent} :
          /\ fs[DesiresPath] # file
          /\ fs' = [fs EXCEPT ![DesiresPath] = file]
    /\ UNCHANGED <<entry, encoded, decoded, cpc, parse_vars, resolve_vars, hook_vars,
                   log, utcnow, ledger_vars, evo_vars, daemon_vars,
                   dialogue_vars>>

DaemonNext ==
    \/ DaemonRejectInterval
    \/ DaemonStart
    \/ DaemonIterate
    \/ DaemonCap
    \/ DaemonEditDesires

SpecDaemon == DaemonInit /\ [][DaemonNext]_vars

-----------------------------------------------------------------------------
(* chorus/dialogue.py and the dialogue command of chorus/cli.py *)

\* The most calls of the dialogue command in a run.
MaxTurns == 2

\* The default history_limit.
DefaultHistoryLimit == 12

Message(role, content) == [role |-> role, content |-> content]

\* _read_tail_lines
_read_tail_lines(file, limit) ==
    IF ~file.exists THEN <<>>
    ELSE LET lines == splitlines(file.text)
         IN  join(<<NL>>, IF Len(lines) > limit
                          THEN SubSeq(lines, Len(lines) - limit + 1, Len(lines))
                          ELSE lines)

\* The messages of build_dialogue_messages for the records of the log:
\* lines 98-101 keep the last history_limit records, none for limit 0.
history_of(records, history_limit) ==
    LET kept == IF history_limit # 0 /\ Len(records) > history_limit
                THEN SubSeq(records, Len(records) - history_limit + 1, Len(records))
                ELSE IF history_limit = 0 THEN <<>> ELSE records
    IN  [i \in 1..Len(kept) |-> Message(kept[i].role, <<kept[i].what, kept[i].reply.raw>>)]

Built(raised, messages) == [raised |-> raised, messages |-> messages]

\* build_dialogue_messages with no capsule: it raises for a negative
\* history_limit and for a state file that is not JSON.
build_dialogue_messages(message, files, records, history_limit) ==
    IF history_limit < 0 THEN Built(TRUE, <<>>)
    ELSE IF read_json_raises(files[StatePath]) THEN Built(TRUE, <<>>)
    ELSE Built(FALSE,
               <<Message("system", <<_read_text(files[DesiresPath]),
                                     _read_tail_lines(files[LedgerPath], 8),
                                     files[StatePath].json>>)>>
                   \o history_of(records, history_limit)
                   \o <<Message("user", message)>>)

\* record_interaction with a text as content.
record_text(records, role, content) ==
    record_interaction(records, role, "reply", TextReply("plain", content))

Turn(failed, error, response, exit_code, stderr) ==
    [failed |-> failed, error |-> error, response |-> response, exit_code |-> exit_code,
     stderr |-> stderr]

\* The messages the user sends, the replies of the provider and the ways it
\* fails.
TurnMessages == {<<"h", "i">>, <<" ">>}

TurnReplies == {<<"o", "k">>, <<>>}

TurnErrors == {"LmStudioRequestError", "ValueError"}

\* A state file that holds no JSON document.
BrokenState == [NoFiles EXCEPT ![DesiresPath] = TextFile(TXT_A), ![StatePath] = TextFile(C_ZZ)]

DialogueInit ==
    /\ RunsIdle
    /\ HookIdle
    /\ DaemonIdle
    /\ LedgerIdle
    /\ EvoIdle
    /\ fs \in {Bootstrapped, NoFiles, BrokenState}
    /\ log \in {<<>>, <<InteractionRecord("system", "bootstrap", NoReply)>>}
    /\ utcnow = 0
    /\ turn_pc = "idle"
    /\ turn_args \in [message : TurnMessages, history_limit : {-1, 0, 1, DefaultHistoryLimit}]
    /\ turn_prompt = <<>>
    /\ turn_out = NoTurn
    /\ turn_pre = log
    /\ turns = 1

\* A turn that records the user message before it builds the prompt.
TurnBegin_recordfirst ==
    /\ turn_pc = "idle"
    /\ turn_pre' = log
    /\ LET built == build_dialogue_messages(turn_args.message, fs,
                         record_text(log, "user", turn_args.message),
                         turn_args.history_limit)
       IN  IF turn_args.history_limit < 0 \/ built.raised
           THEN /\ turn_pc' = "raised"
                /\ turn_out' = Turn(TRUE, "ValueError", <<>>, <<>>, "")
                /\ UNCHANGED <<turn_prompt, log>>
           ELSE /\ turn_pc' = "call"
                /\ turn_prompt' = built.messages
                /\ log' = record_text(log, "user", turn_args.message)
                /\ UNCHANGED turn_out
    /\ UNCHANGED <<entry, encoded, decoded, cpc, parse_vars, resolve_vars, hook_vars,
                   daemon_vars, fs, utcnow, ledger_vars, evo_vars, turn_args, turns>>

\* dialogue.py lines 39-51: the check of history_limit, the prompt, the
\* user record.
TurnBegin ==
    /\ turn_pc = "idle"
    /\ turn_pre' = log
    /\ LET built == build_dialogue_messages(turn_args.message, fs, log,
                                            turn_args.history_limit)
       IN  IF turn_args.history_limit < 0 \/ built.raised
           THEN /\ turn_pc' = "raised"
                /\ turn_out' = Turn(TRUE, "ValueError", <<>>, <<>>, "")
                /\ UNCHANGED <<turn_prompt, log>>
           ELSE /\ turn_pc' = "call"
                /\ turn_prompt' = built.messages
                /\ log' = record_text(log, "user", turn_args.message)
                /\ UNCHANGED turn_out
    /\ UNCHANGED <<entry, encoded, decoded, cpc, parse_vars, resolve_vars, hook_vars,
                   daemon_vars, fs, utcnow, ledger_vars, evo_vars, turn_args, turns>>

\* dialogue.py lines 69-70, 78-79: the provider returns.
TurnProviderReturns ==
    /\ turn_pc = "call"
    /\ \E response \in TurnReplies :
          /\ log' = record_text(log, "assistant", response)
          /\ turn_out' = Turn(FALSE, "", response, <<>>, "")
    /\ turn_pc' = "returned"
    /\ UNCHANGED <<entry, encoded, decoded, cpc, parse_vars, resolve_vars, hook_vars,
                   daemon_vars, fs, utcnow, ledger_vars, evo_vars, turn_args, turn_prompt,
                   turn_pre, turns>>

\* A turn that loses the failure of the provider without a record.
TurnProviderRaises_silent ==
    /\ turn_pc = "call"
    /\ \E error \in TurnErrors : turn_out' = Turn(TRUE, error, <<>>, <<>>, "")
    /\ turn_pc' = "raised"
    /\ UNCHANGED <<entry, encoded, decoded, cpc, parse_vars, resolve_vars, hook_vars,
                   daemon_vars, env_vars, ledger_vars, evo_vars, turn_args, turn_prompt,
                   turn_pre, turns>>

\* dialogue.py lines 69-77: the provider raises; the failure is recorded and
\* raised again.
TurnProviderRaises ==
    /\ turn_pc = "call"
    /\ \E error \in TurnErrors : turn_out' = Turn(TRUE, error, <<>>, <<>>, "")
    /\ log' = record_interaction(log, "system", "Dialogue error", NoReply)
    /\ turn_pc' = "raised"
    /\ UNCHANGED <<entry, encoded, decoded, cpc, parse_vars, resolve_vars, hook_vars,
                   daemon_vars, fs, utcnow, ledger_vars, evo_vars, turn_args, turn_prompt,
                   turn_pre, turns>>

\* cli.py lines 224-241: main prints the reply and returns 0; nothing
\* catches a failure of run_dialogue_turn, which leaves main.
MainDialogue ==
    /\ turn_pc \in {"returned", "raised"}
    /\ IF turn_out.failed
       THEN turn_pc' = "propagated" /\ UNCHANGED turn_out
       ELSE /\ turn_pc' = "exited"
            /\ turn_out' = [turn_out EXCEPT !.exit_code = <<0>>]
    /\ UNCHANGED <<entry, encoded, decoded, cpc, parse_vars, resolve_vars, hook_vars,
                   daemon_vars, env_vars, ledger_vars, evo_vars, turn_args, turn_prompt,
                   turn_pre, turns>>

\* The command is run again.
TurnAgain ==
    /\ turn_pc \in {"exited", "propagated"} /\ turns < MaxTurns
    /\ turns' = turns + 1
    /\ turn_args' \in [message : TurnMessages,
                        history_limit : {-1, 0, 1, DefaultHistoryLimit}]
    /\ turn_pc' = "idle"
    /\ turn_out' = NoTurn
    /\ turn_prompt' = <<>>
    /\ turn_pre' = log
    /\ UNCHANGED <<entry, encoded, decoded, cpc, parse_vars, resolve_vars, hook_vars,
                   daemon_vars, env_vars, ledger_vars, evo_vars>>

DialogueNext ==
    \/ TurnBegin
    \/ TurnProviderReturns
    \/ TurnProviderRaises
    \/ MainDialogue
    \/ TurnAgain

SpecDialogue == DialogueInit /\ [][DialogueNext]_vars

\* Either loop, run on its own.
LoopsInit == Init \/ DaemonInit

LoopsNext == Next \/ DaemonNext

SpecLoops == LoopsInit /\ [][LoopsNext]_vars

-----------------------------------------------------------------------------
(* A Ledger object, its caller, and materialize_expansion, against one       *)
(* ledger path.                                                              *)

E_OK == LedgerEntry(isoformat(0), T_FACT, <<"k">>, <<"a">>, Source)

\* a type outside ALLOWED_ENTRY_TYPES
E_TYPE == LedgerEntry(isoformat(0), <<"B", "A", "D">>, <<"k">>, <<"a">>, Source)

\* an empty content
E_BLANK == LedgerEntry(isoformat(0), T_TODO, <<"k">>, <<>>, Source)

EntrySamples == {E_OK, E_TYPE, E_BLANK}

\* a second valid entry
E_PREF == LedgerEntry(isoformat(0), T_PREF, <<"k">>, <<"b">>, Source)

\* The iterables handed to Ledger.extend.
BatchSamples == {<<E_PREF>>, <<E_PREF, E_OK>>, <<E_OK, E_BLANK, E_PREF>>, <<E_TYPE>>}

\* Ledger.extend: append() entry by entry; the first invalid entry raises
\* and leaves the entries before it appended.
RECURSIVE extend(_, _)
extend(held, batch) ==
    IF batch = <<>> THEN [raised |-> FALSE, entries |-> held]
    ELSE IF ~validate(Head(batch)) THEN [raised |-> TRUE, entries |-> held]
    ELSE extend(Append(held, Head(batch)), Tail(batch))

\* A property that hands out the list object itself.
entries_alias(held) == [held |-> TRUE, shared |-> TRUE, items |-> held]

\* Ledger.entries: list(self._entries), a new list with the same items.
entries_property(held) == [held |-> TRUE, shared |-> FALSE, items |-> held]

RECURSIVE reversed(_)
reversed(s) == IF s = <<>> THEN <<>> ELSE Append(reversed(Tail(s)), Head(s))

\* The caller's list after list.pop(), list.clear(), list.reverse() or
\* list.insert(0, e).
mutated(items, how, e) ==
    CASE how = "pop" -> SubSeq(items, 1, Len(items) - 1)
      [] how = "clear" -> <<>>
      [] how = "reverse" -> reversed(items)
      [] OTHER -> <<e>> \o items

DesiresSamples == {TXT_A, TXT_B, TXT_BULLETS}

Did(op, raised) == [op |-> op, raised |-> raised]

LedgerInit ==
    /\ CodecIdle
    /\ EvoIdle
    /\ fs = [NoFiles EXCEPT ![DesiresPath] = TextFile(TXT_A)]
    /\ log = <<>>
    /\ utcnow = 0
    /\ candidate = NoEntry
    /\ _entries = <<>>
    /\ returned = <<>>
    /\ view = NoView
    /\ lop = Did("none", FALSE)

\* LedgerEntry(...): the dataclass constructor stores the fields as given.
Construct ==
    /\ \E e \in EntrySamples : candidate' = e
    /\ lop' = Did("construct", FALSE)
    /\ UNCHANGED <<codec_vars, env_vars, _entries, returned, view, evo_vars>>

\* LedgerEntry.to_ledger_line
Serialize ==
    /\ candidate # NoEntry
    /\ lop' = Did("to_ledger_line", ~to_ledger_line(candidate).ok)
    /\ UNCHANGED <<codec_vars, env_vars, candidate, _entries, returned, view, evo_vars>>

\* Ledger.append
LedgerAppend ==
    /\ candidate # NoEntry /\ Len(_entries) < MaxEntries
    /\ IF validate(candidate)
       THEN _entries' = Append(_entries, candidate) /\ lop' = Did("append", FALSE)
       ELSE UNCHANGED _entries /\ lop' = Did("append", TRUE)
    /\ UNCHANGED <<codec_vars, env_vars, candidate, returned, view, evo_vars>>

\* append_to_file opening the file before it validates the entry: a ledger
\* file that does not exist is there, empty, when the entry is refused.
AppendToFile_openfirst ==
    /\ candidate # NoEntry /\ Len(_entries) < MaxEntries
    /\ IF validate(candidate)
       THEN /\ fs' = write_text(fs, LedgerPath,
                        (IF fs[LedgerPath].exists THEN fs[LedgerPath].text ELSE <<>>)
                            \o to_ledger_line(candidate).line \o <<NL>>)
            /\ _entries' = Append(_entries, candidate)
            /\ lop' = Did("append_to_file", FALSE)
       ELSE /\ fs' = write_text(fs, LedgerPath,
                        IF fs[LedgerPath].exists THEN fs[LedgerPath].text ELSE <<>>)
            /\ UNCHANGED _entries
            /\ lop' = Did("append_to_file", TRUE)
    /\ UNCHANGED <<codec_vars, log, utcnow, candidate, returned, view, evo_vars>>

\* Ledger.append_to_file: the file is opened for appending.
AppendToFile ==
    /\ candidate # NoEntry /\ Len(_entries) < MaxEntries
    /\ IF validate(candidate)
       THEN /\ fs' = write_text(fs, LedgerPath,
                        (IF fs[LedgerPath].exists THEN fs[LedgerPath].text ELSE <<>>)
                            \o to_ledger_line(candidate).line \o <<NL>>)
            /\ _entries' = Append(_entries, candidate)
            /\ lop' = Did("append_to_file", FALSE)
       ELSE UNCHANGED <<fs, _entries>> /\ lop' = Did("append_to_file", TRUE)
    /\ UNCHANGED <<codec_vars, log, utcnow, candidate, returned, view, evo_vars>>

\* Ledger.extend
LedgerExtend ==
    /\ \E batch \in BatchSamples :
          /\ Len(extend(_entries, batch).entries) <= MaxEntries
          /\ _entries' = extend(_entries, batch).entries
          /\ lop' = Did("extend", extend(_entries, batch).raised)
    /\ UNCHANGED <<codec_vars, env_vars, candidate, returned, view, evo_vars>>

\* The caller reads the entries property.
GetEntries ==
    /\ view' = entries_property(_entries)
    /\ lop' = Did("entries", FALSE)
    /\ UNCHANGED <<codec_vars, env_vars, candidate, _entries, returned, evo_vars>>

\* The caller changes the list it obtained; a list that is the Ledger's own
\* changes the Ledger with it.
MutateView ==
    /\ view.held
    /\ \E how \in {"pop", "clear", "reverse", "insert"} :
          /\ how \in {"pop", "reverse"} => view.items # <<>>
          /\ how = "clear" => view.items # <<>>
          /\ how = "insert" => (candidate # NoEntry /\ Len(view.items) < MaxEntries)
          /\ view' = [view EXCEPT !.items = mutated(view.items, how, candidate)]
          /\ IF view.shared
             THEN _entries' = mutated(view.items, how, candidate)
             ELSE UNCHANGED _entries
    /\ lop' = Did("mutate", FALSE)
    /\ UNCHANGED <<codec_vars, env_vars, candidate, returned, evo_vars>>

\* The desires file is edited outside the program.
EditDesires ==
    /\ \E text \in DesiresSamples :
          /\ fs[DesiresPath].text # text
          /\ fs' = write_text(fs, DesiresPath, text)
    /\ lop' = Did("edit", FALSE)
    /\ UNCHANGED <<codec_vars, log, utcnow, candidate, _entries, returned, view, evo_vars>>

\* What the caller sees of materialize_expansion.
Materialized(out) ==
    /\ fs' = out.files
    /\ returned' = out.entries
    /\ lop' = Did("materialize_expansion", ~out.ok)

\* materialize_expansion
Materialize ==
    /\ utcnow < MaxClock
    /\ utcnow' = utcnow + 1
    /\ Materialized(materialize_expansion(fs, DesiresPath, LedgerPath, StatePath, Source,
                                          utcnow + 1))
    /\ UNCHANGED <<codec_vars, log, candidate, _entries, view, evo_vars>>

LedgerNext ==
    \/ Construct
    \/ Serialize
    \/ LedgerAppend
    \/ AppendToFile
    \/ EditDesires
    \/ Materialize

SpecLedger == LedgerInit /\ [][LedgerNext]_vars

\* The Ledger object alone: its caller appends, extends, reads the entries
\* property and changes the list it got.
MemoryNext ==
    \/ Construct
    \/ LedgerAppend
    \/ AppendToFile
    \/ LedgerExtend
    \/ GetEntries
    \/ MutateView

SpecMemory == LedgerInit /\ [][MemoryNext]_vars

-----------------------------------------------------------------------------
(* Vocabulary of the properties of the evolution loop. *)

\* The step of _apply_response in an iteration.
Applying == pc = "apply"

\* Where _write_files puts a files entry.
Destination(item) == resolve(joinpath(_base_dir(DesiresPath), item.path))

\* Every entry of items is in files, a later entry for the same destination
\* replacing an earlier one.
FilesWritten(items, files) ==
    \A i \in 1..Len(items) :
        LET last == CHOOSE j \in i..Len(items) :
                        /\ Destination(items[j]) = Destination(items[i])
                        /\ \A k \in (j + 1)..Len(items) :
                               Destination(items[k]) # Destination(items[i])
        IN  files[Destination(items[i])] = TextFile(items[last].content)

\* No entry of items names path.
Unnamed(items, path) == \A i \in 1..Len(items) : Destination(items[i]) # path

\* Every entry of items names a file inside the directory of the desires file.
AllInside(items) ==
    \A i \in 1..Len(items) :
        /\ _base_dir(DesiresPath) \in parents(Destination(items[i]))

IsPrefix(a, b) == Len(a) <= Len(b) /\ SubSeq(b, 1, Len(a)) = a

-----------------------------------------------------------------------------
(* C2 *)

\* C2 (as stated): an iteration whose resolved and normalized desires text
\* equals the trimmed current desires has status unchanged, leaves the desires,
\* ledger and state files as they were and writes every files entry.
C2_UnchangedAsStated ==
    [][Applying =>
        LET resolved == _parse_response_payload(response_text)
            normalized == _normalize_desires_text(resolved.payload.desires)
        IN  (resolved.ok /\ strip(normalized) = strip(current_desires)) =>
                /\ pc' = "cap"
                /\ results'[Len(results')].status = "unchanged"
                /\ fs'[DesiresPath] = fs[DesiresPath]
                /\ fs'[LedgerPath] = fs[LedgerPath]
                /\ fs'[StatePath] = fs[StatePath]
                /\ FilesWritten(resolved.payload.files, fs')]_vars

\* C2 (amended): an iteration whose resolved and normalized desires text is
\* not empty and equals the trimmed current desires, and whose files entries
\* all name files inside the directory of the desires file, has status
\* unchanged; in every unchanged iteration every files entry is written and no
\* file that no files entry names changes (nothing is rematerialized).
C2_Unchanged ==
    [][Applying =>
        LET resolved == _parse_response_payload(response_text)
            normalized == _normalize_desires_text(resolved.payload.desires)
            items == resolved.payload.files
        IN  /\ ( /\ resolved.ok
                 /\ strip(normalized) # <<>>
                 /\ strip(normalized) = strip(current_desires)
                 /\ AllInside(items) ) =>
                    (pc' = "cap" /\ results'[Len(results')].status = "unchanged")
            /\ (pc' = "cap" /\ results'[Len(results')].status = "unchanged") =>
                    /\ FilesWritten(items, fs')
                    /\ \A path \in Locs : Unnamed(items, path) => fs'[path] = fs[path]]_vars

\* An unchanged iteration has written notes.txt and left the desires alone.
C2_Witness ==
    /\ pc = "cap"
    /\ results[Len(results)].status = "unchanged"
    /\ fs[NotesPath] = TextFile(C_V1)
    /\ pre[NotesPath] # fs[NotesPath]
    /\ fs[DesiresPath] = pre[DesiresPath]

-----------------------------------------------------------------------------
(* C3 *)

\* C3: a JSON reply whose desires string is not blank and holds no numbered
\* item gives the iteration status invalid with the reason "Desires must be a
\* numbered list like '1) Title'." and leaves the desires file as it was.
C3_FreeTextInvalid ==
    [][( /\ Applying
         /\ response_text.kind = "object"
         /\ response_text.desires.tag = "str"
         /\ strip(response_text.desires.text) # <<>>
         /\ parse_desires(response_text.desires.text) = <<>> ) =>
              /\ pc' = "cap"
              /\ results'[Len(results')].status = "invalid"
              /\ results'[Len(results')].reason =
                     "Desires must be a numbered list like '1) Title'."
              /\ fs'[DesiresPath] = fs[DesiresPath]]_vars

-----------------------------------------------------------------------------
(* C4 *)

\* C4: after every iteration with status updated the desires file holds the
\* normalized desires text of the reply, trimmed and ended by one newline,
\* every files entry is written, and the ledger file and the state snapshot
\* are the materialization of that text.
C4_UpdatedMaterialized ==
    [][Applying =>
        LET resolved == _parse_response_payload(response_text)
            normalized == _normalize_desires_text(resolved.payload.desires)
            desires == parse_desires(normalized)
        IN  (pc' = "cap" /\ results'[Len(results')].status = "updated") =>
                /\ fs'[DesiresPath] = TextFile(Append(strip(normalized), NL))
                /\ FilesWritten(resolved.payload.files, fs')
                /\ fs'[LedgerPath] =
                       TextFile(ledger_file_text(
                           build_expansion_ledger(desires, Source, utcnow).entries))
                /\ fs'[StatePath].kind = "json"
                /\ fs'[StatePath].json.desires = desires
                /\ fs'[StatePath].json.desire_count = Len(desires)]_vars

-----------------------------------------------------------------------------
(* C5 *)

\* C5: an iteration with status invalid changes no file (the desires, ledger
\* and state files and the paths of the reply's files entries included) and
\* appends the raw reply to the interaction log as a system record.
C5_InvalidFrame ==
    [][Applying =>
        ((pc' = "cap" /\ results'[Len(results')].status = "invalid") =>
            /\ fs' = fs
            /\ Len(log') > Len(log)
            /\ log'[Len(log) + 1] = InteractionRecord("system", "raw", response_text))]_vars

\* An invalid iteration whose reply named files.
C5_Witness ==
    /\ pc = "cap"
    /\ results[Len(results)].status = "invalid"
    /\ response_text.files.tag = "list"
    /\ fs = pre
    /\ \E i \in 1..Len(log) : log[i] = InteractionRecord("system", "raw", response_text)

-----------------------------------------------------------------------------
(* C6 *)

\* C6: when the provider raises, the iteration's result has status error, no
\* file changes, the log holds the user record followed by a system error
\* record, and the loop goes on to its cap check, from where it returns at the
\* cap and starts the next iteration otherwise.
C6_ProviderError ==
    [][ /\ (pc = "call" /\ pc' # "apply") =>
             /\ pc' = "cap"
             /\ results' = Append(results, EvolutionResult(iteration, utcnow, "error", ""))
             /\ fs' = fs
             /\ log[Len(log)].role = "user"
             /\ log' = Append(log, InteractionRecord("system", "error", NoReply))
        /\ pc = "cap" =>
             pc' = IF max_iterations # <<>> /\ iteration >= max_iterations[1]
                   THEN "returned" ELSE "iter" ]_vars

\* The loop called the provider again after an iteration that ended in error.
C6_Witness ==
    /\ pc = "call"
    /\ iteration = 2
    /\ results[1].status = "error"

-----------------------------------------------------------------------------
(* C7 *)

\* C7: no file outside the directory of the desires file is ever written, and
\* an accepted reply with a files entry that resolves outside it makes the
\* loop end with a failure, adding no result.
C7_WriteGuard ==
    [][ /\ ~fs'[OutsidePath].exists
        /\ Applying =>
             LET resolved == _parse_response_payload(response_text)
                 normalized == _normalize_desires_text(resolved.payload.desires)
             IN  ( /\ resolved.ok
                   /\ strip(normalized) # <<>>
                   /\ ~AllInside(resolved.payload.files) ) =>
                       (pc' = "raised" /\ results' = results) ]_vars

\* The loop ended with a failure after writing notes.txt and before writing
\* outside.txt.
C7_Witness ==
    /\ pc = "raised"
    /\ ~AllInside(_parse_response_payload(response_text).payload.files)
    /\ fs[NotesPath] = TextFile(C_ZZ)
    /\ ~fs[OutsidePath].exists

-----------------------------------------------------------------------------
(* C8 *)

\* C8: the ledger file is append-only: whatever it holds stays a prefix of
\* what it holds after any operation.
C8_AppendOnly ==
    [][fs[LedgerPath].exists =>
          /\ fs'[LedgerPath].exists
          /\ IsPrefix(fs[LedgerPath].text, fs'[LedgerPath].text)]_vars

-----------------------------------------------------------------------------
(* C9 *)

\* C9: after materialize_expansion the ledger file has one line per parsed
\* desire, line i is the encoded line of the returned entry i and decodes to
\* it, and the file ends with a newline only if it is not empty.
C9_OneLinePerDesire ==
    (lop = Did("materialize_expansion", FALSE)) =>
        LET text == fs[LedgerPath].text
            lines == splitlines(text)
        IN  /\ Len(lines) = Len(parse_desires(fs[DesiresPath].text))
            /\ Len(lines) = Len(returned)
            /\ \A i \in 1..Len(lines) :
                   /\ i <= Len(returned)
                   /\ lines[i] = to_ledger_line(returned[i]).line
                   /\ parse_ledger_line(lines[i]).ok
                   /\ parse_ledger_line(lines[i]).entry = returned[i]
            /\ (text # <<>>) <=> (text # <<>> /\ text[Len(text)] = NL)

-----------------------------------------------------------------------------
(* C10 *)

-----------------------------------------------------------------------------
(* The decoding run: parse_ledger_line applied to a line of text, well       *)
(* formed or not.                                                            *)

\* key:"value"
QuotedField(key, value) == key \o <<":", DQ>> \o value \o <<DQ>>

\* key:value
BareField(key, value) == key \o <<":">> \o value

\* key:"value
OpenField(key, value) == key \o <<":", DQ>> \o value

V_BARE == <<"x", "y", "z">>

\* The ways a field is written in the sample lines; <<>> is a field left out.
FieldForms(key, value) ==
    {QuotedField(key, value), BareField(key, V_BARE), OpenField(key, value),
     QuotedField(key, <<>>), <<>>}

RECURSIVE Present(_)
Present(fields) ==
    IF fields = <<>> THEN <<>>
    ELSE IF Head(fields) = <<>> THEN Present(Tail(fields))
    ELSE <<Head(fields)>> \o Present(Tail(fields))

Payloads ==
    {join(<<",", " ">>, Present(<<a, b, c, d, e>>)) :
        a \in FieldForms(K_ts, <<"1">>),
        b \in FieldForms(K_type, T_FACT) \cup {QuotedField(K_type, <<"B", "A", "D">>)},
        c \in {QuotedField(K_topic, <<"t">>), QuotedField(K_topic, <<>>), <<>>},
        d \in {QuotedField(K_content, <<"c", DQ, "x", DQ, "c">>),
               BareField(K_content, V_BARE), <<>>},
        e \in {QuotedField(K_source, <<"s">>), OpenField(K_source, <<"s">>),
               QuotedField(K_source, <<>>)}}

\* A payload framed as a ledger line, and framed wrongly.
Frames(payload) ==
    {<<"-", " ", "{">> \o payload \o <<"}">>,
     <<" ", "-", " ", "{">> \o payload \o <<"}", NL>>,
     <<"{">> \o payload \o <<"}">>,
     <<"-", " ", "{">> \o payload}

LineSamples == UNION {Frames(payload) : payload \in Payloads}

DecodeInit ==
    /\ entry = NoEntry
    /\ encoded \in {[ok |-> TRUE, err |-> "", entry |-> NoEntry, line |-> line] :
                       line \in LineSamples}
    /\ decoded = Failure("")
    /\ cpc = "encoded"
    /\ ParseIdle
    /\ ResolveIdle
    /\ fs = NoFiles /\ log = <<>> /\ utcnow = 0
    /\ LedgerIdle
    /\ EvoIdle
    /\ HookIdle
    /\ DaemonIdle
    /\ DialogueIdle

SpecDecode == DecodeInit /\ [][Decode]_vars

\* The text between the braces of a trimmed line.
PayloadOf(line) == SubSeq(strip(line), 4, Len(strip(line)) - 1)

Framed(line) ==
    startswith(strip(line), <<"-", " ", "{">>) /\ endswith(strip(line), <<"}">>)

\* Whether a double quote opened in s[i..] is still open at the end of s;
\* a character after a backslash is never a quote.
RECURSIVE QuoteLeftOpen(_, _, _)
QuoteLeftOpen(s, i, open) ==
    IF i > Len(s) THEN open
    ELSE IF s[i] = BS THEN QuoteLeftOpen(s, i + 2, open)
    ELSE IF s[i] = DQ THEN QuoteLeftOpen(s, i + 1, ~open)
    ELSE QuoteLeftOpen(s, i + 1, open)

\* A field key:value whose value does not start and end with a double quote.
ValueNotQuoted(field) ==
    LET colon == find(field, ":", 1)
        value == strip(SubSeq(field, colon + 1, Len(field)))
    IN  colon # 0 /\ ~(value # <<>> /\ Head(value) = DQ /\ value[Len(value)] = DQ)

HasBareValue(line) ==
    LET parts == _split_quoted_fields(PayloadOf(line))
    IN  parts.ok /\ \E i \in 1..Len(parts.fields) : ValueNotQuoted(parts.fields[i])

Raised(result) == ~result.ok /\ result.entry = NoEntry

(* C11: parse_ledger_line raises, and returns no entry, for every line that  *)
(* after trimming does not start with "- {" or does not end with "}", that   *)
(* has a field whose value is not enclosed in double quotes, or that has an  *)
(* unterminated quoted value.                                                *)
C11_MalformedLineRaises ==
    (cpc = "decoded" /\ entry = NoEntry)
        => /\ ~Framed(encoded.line) => Raised(decoded)
           /\ (Framed(encoded.line) /\ QuoteLeftOpen(PayloadOf(encoded.line), 1, FALSE))
                  => Raised(decoded)
           /\ (Framed(encoded.line) /\ HasBareValue(encoded.line)) => Raised(decoded)

\* A framed line with every quote closed and one value written bare was
\* decoded, and the decoder rejected it for the bare value.
C11_Witness ==
    /\ cpc = "decoded" /\ entry = NoEntry
    /\ Framed(encoded.line)
    /\ ~QuoteLeftOpen(PayloadOf(encoded.line), 1, FALSE)
    /\ HasBareValue(encoded.line)
    /\ decoded.err = "Ledger values must be quoted"

(* C12: parse_ledger_line never returns an entry whose type is outside the   *)
(* eight allowed types or whose ts, topic, content or source is empty or     *)
(* missing: every such line ends in a raised failure.                        *)
C12_DecodedEntryValid ==
    (cpc = "decoded" /\ entry = NoEntry)
        => /\ decoded.ok
                => /\ decoded.entry.type \in ALLOWED_ENTRY_TYPES
                   /\ \A f \in {"ts", "topic", "content", "source"} :
                          decoded.entry[f] # <<>>
           /\ ~decoded.ok => decoded.entry = NoEntry
           /\ (\E k \in {K_ts, K_type, K_topic, K_content, K_source} :
                   \A i \in 1..Len(_split_quoted_fields(PayloadOf(encoded.line)).fields) :
                       ~startswith(_split_quoted_fields(PayloadOf(encoded.line)).fields[i],
                                   k \o <<":">>))
                  => Raised(decoded)

\* A framed line with every value quoted, but a type outside the allowed
\* ones or an empty field, was decoded and rejected by validation.
C12_Witness ==
    /\ cpc = "decoded" /\ entry = NoEntry
    /\ Framed(encoded.line)
    /\ decoded.err \in {"validation"}
    /\ ~HasBareValue(encoded.line)

-----------------------------------------------------------------------------
(* C13: the in-memory Ledger is append-only: across append, extend and       *)
(* append_to_file, and across any change the caller makes to a list it got   *)
(* from the entries property, the entries held before the step are an        *)
(* unchanged prefix, in the same order, of the entries held after it.        *)
C13_MemoryAppendOnly == [][IsPrefix(_entries, _entries')]_vars

\* The caller emptied or reordered the list it obtained while the Ledger
\* holds two different entries, after an extend or an append.
C13_Witness ==
    /\ lop = Did("mutate", FALSE)
    /\ Len(_entries) = 2 /\ _entries[1] # _entries[2]
    /\ view.held /\ view.items # _entries

-----------------------------------------------------------------------------
(* The parser run: parse_desires applied to a text, then                     *)
(* build_expansion_ledger and build_expansion_state applied to its result.   *)

\* Lines a desires text is made of: headers with ")" and ".", with index 0,
\* padded, a body line with and without padding, a blank line, a line that
\* looks like a header but has no space after the ")".
ParseLines ==
    {<<"1", ")", " ", "A">>, <<" ", "2", ".", " ", " ", "B", " ">>, <<"0", ")", " ", "Z">>,
     <<" ", "x", " ">>, <<"y">>, <<>>, <<"3", ")", "x">>}

ParseTexts == {join(<<NL>>, lines) : lines \in UNION {[1..n -> ParseLines] : n \in 0..MaxLines}}

ParseInit ==
    /\ markdown \in ParseTexts
    /\ parsed_desires = <<>>
    /\ expansion = NoExpansion
    /\ xpc = "text"
    /\ entry = NoEntry /\ encoded = Failure("") /\ decoded = Failure("") /\ cpc = "off"
    /\ ResolveIdle
    /\ fs = NoFiles /\ log = <<>> /\ utcnow = 0
    /\ LedgerIdle
    /\ EvoIdle
    /\ HookIdle
    /\ DaemonIdle
    /\ DialogueIdle

\* parse_desires(text)
Parse ==
    /\ xpc = "text"
    /\ parsed_desires' = parse_desires(markdown)
    /\ xpc' = "parsed"
    /\ UNCHANGED <<entry, encoded, decoded, cpc, markdown, expansion, resolve_vars, env_vars,
                   ledger_vars, evo_vars,
                   hook_vars, daemon_vars,
                   dialogue_vars>>

\* expand_from_desires_file, lines 98-100: the ledger is built first, and
\* the snapshot only when building the ledger did not raise.
expanded(ledger, snapshot, source) ==
    IF ledger.ok
    THEN [raised |-> FALSE, source |-> source, entries |-> ledger.entries,
          snapshot |-> snapshot]
    ELSE [raised |-> TRUE, source |-> source, entries |-> <<>>, snapshot |-> NoSnapshot]

\* build_expansion_ledger and build_expansion_state on the parsed desires,
\* with the caller's source label.
Build ==
    /\ xpc = "parsed"
    /\ \E source \in {Source, <<>>} :
          expansion' = expanded(build_expansion_ledger(parsed_desires, source, 1),
                                build_expansion_state(parsed_desires, 1), source)
    /\ xpc' = "built"
    /\ UNCHANGED <<entry, encoded, decoded, cpc, markdown, parsed_desires, resolve_vars,
                   env_vars, ledger_vars, evo_vars,
                   hook_vars, daemon_vars,
                   dialogue_vars>>

ParseNext == Parse \/ Build

SpecParse == ParseInit /\ [][ParseNext]_vars

\* A header line: trimmed, it is digits, ")" or ".", whitespace and a title.
IsHeader(line) == header_match(strip(line)).matched

\* The positions of the header lines among lines[i..], in order.
RECURSIVE HeaderPositions(_, _)
HeaderPositions(lines, i) ==
    IF i > Len(lines) THEN <<>>
    ELSE IF IsHeader(lines[i]) THEN <<i>> \o HeaderPositions(lines, i + 1)
    ELSE HeaderPositions(lines, i + 1)

\* The trimmed non-blank lines strictly between positions lo and hi.
RECURSIVE NonBlankBetween(_, _, _)
NonBlankBetween(lines, lo, hi) ==
    IF lo + 1 >= hi THEN <<>>
    ELSE IF strip(lines[lo + 1]) = <<>> THEN NonBlankBetween(lines, lo + 1, hi)
    ELSE <<strip(lines[lo + 1])>> \o NonBlankBetween(lines, lo + 1, hi)

\* The Desire of the header at position at, whose body ends before position next.
DesireOfHeader(lines, at, next) ==
    Desire(header_match(strip(lines[at])).index,
           strip(header_match(strip(lines[at])).rest),
           join(<<NL>>, NonBlankBetween(lines, at, next)))

DesiresOfHeaders(lines, at) ==
    [k \in 1..Len(at) |->
        DesireOfHeader(lines, at[k], IF k < Len(at) THEN at[k + 1] ELSE Len(lines) + 1)]

(* C14: parse_desires returns one Desire per header line, in source order;   *)
(* lines before the first header are discarded; each body is the trimmed     *)
(* non-blank lines between its header and the next header joined by          *)
(* newlines; a text with no header gives the empty sequence.                 *)
C14_OneDesirePerHeader ==
    xpc \in {"parsed", "built"}
        => parsed_desires = DesiresOfHeaders(splitlines(markdown),
                                             HeaderPositions(splitlines(markdown), 1))

\* A text that starts with a line that is no header and has two headers, the
\* first with a body, was parsed into two desires.
C14_Witness ==
    /\ xpc = "parsed"
    /\ Len(parsed_desires) = 2
    /\ ~IsHeader(splitlines(markdown)[1]) /\ strip(splitlines(markdown)[1]) # <<>>
    /\ parsed_desires[1].body # <<>>


\* A line that is neither blank nor a header: a body line.
IsBodyLine(line) == strip(line) # <<>> /\ ~IsHeader(line)

(* C15: a body with two non-blank lines separated by a single blank line     *)
(* keeps the blank line: a text made of a header, a body line, a blank line  *)
(* and a second body line parses to one Desire whose body is the first line, *)
(* an empty line and the second line.                                        *)
C15_InteriorBlankKept ==
    (/\ xpc = "parsed"
     /\ Len(splitlines(markdown)) = 4
     /\ IsHeader(splitlines(markdown)[1])
     /\ IsBodyLine(splitlines(markdown)[2])
     /\ strip(splitlines(markdown)[3]) = <<>>
     /\ IsBodyLine(splitlines(markdown)[4]))
        => /\ Len(parsed_desires) = 1
           /\ parsed_desires[1].body =
                  strip(splitlines(markdown)[2]) \o <<NL, NL>> \o strip(splitlines(markdown)[4])

(* C16: every Desire parse_desires returns has an index of at least 1.       *)
C16_IndexPositive ==
    xpc \in {"parsed", "built"}
        => \A i \in 1..Len(parsed_desires) : parsed_desires[i].index >= 1


(* C17: build_expansion_ledger maps each parsed Desire to exactly one ledger *)
(* entry, in the same order, with type PROJECT, topic the title, content the *)
(* body (the placeholder when the body is empty) and source the caller's     *)
(* label; the state snapshot lists the same desires and its desire_count is  *)
(* the number of ledger entries.  The call raises only for an empty label.   *)
C17_OneEntryPerDesire ==
    xpc = "built"
        => /\ expansion.raised <=> (expansion.source = <<>> /\ parsed_desires # <<>>)
           /\ ~expansion.raised
                 => /\ Len(expansion.entries) = Len(parsed_desires)
                    /\ \A i \in 1..Len(parsed_desires) :
                          /\ expansion.entries[i].type = T_PROJECT
                          /\ expansion.entries[i].topic = parsed_desires[i].title
                          /\ parsed_desires[i].body # <<>>
                                => expansion.entries[i].content = parsed_desires[i].body
                          /\ parsed_desires[i].body = <<>>
                                => expansion.entries[i].content = PLACEHOLDER
                          /\ expansion.entries[i].source = expansion.source
                    /\ expansion.snapshot.desires = parsed_desires
                    /\ expansion.snapshot.desire_count = Len(expansion.entries)

\* A ledger was built from two desires, one with a body and one without.
C17_Witness ==
    /\ xpc = "built" /\ ~expansion.raised
    /\ Len(parsed_desires) = 2
    /\ parsed_desires[1].body # <<>> /\ parsed_desires[2].body = <<>>
    /\ Len(expansion.entries) = 2

-----------------------------------------------------------------------------
(* The resolver run: _parse_response_payload applied to a reply.             *)

\* The key of a reply that is no valid JSON: "desires", another key, the key
\* in single quotes.
BrokenKeys == {K_desires, <<DQ, "x", DQ>>, <<"'", "d", "e", "s", "i", "r", "e", "s", "'">>}

BrokenSeparators == {<<":", " ">>, <<" ", ":">>, <<" ">>}

\* What follows the opening quote of the value: a title, a title and a body
\* line after a literal newline, nothing, an escaped newline, an escaped quote.
BrokenBodies ==
    {<<"1", ")", " ", "A">>, <<"1", ")", " ", "A", NL, "b">>, <<>>, <<BS, "n">>,
     <<"a", BS, DQ>>}

BrokenTails == {<<DQ, "}">>, <<DQ, ",">>, <<DQ, " ", "}", NL>>, <<DQ, ",", " ", "}">>, <<>>}

\* Strict decoding accepts the text: a double-quoted key, a colon, a value
\* with no literal newline, closed by a quote and "}".
StrictlyDecodable(key, sep, body, tail) ==
    /\ key \in {K_desires, <<DQ, "x", DQ>>}
    /\ \E i \in 1..Len(sep) : sep[i] = ":"
    /\ \A i \in 1..Len(body) : body[i] # NL
    /\ tail \in {<<DQ, "}">>, <<DQ, " ", "}", NL>>}

\* Texts that start a JSON object and that json.loads rejects with
\* JSONDecodeError.
BrokenTexts ==
    {<<"{">> \o q[1] \o q[2] \o <<DQ>> \o q[3] \o q[4] :
        q \in {p \in BrokenKeys \X BrokenSeparators \X BrokenBodies \X BrokenTails :
                  ~StrictlyDecodable(p[1], p[2], p[3], p[4])}}

BlankTexts == {<<>>, <<" ">>, <<NL, "\t">>}

\* The entries of a "desires" list: two strings, one padded, and a number.
ListEntries ==
    {[str |-> TRUE, text |-> <<"X">>], [str |-> TRUE, text |-> <<" ", "Y", " ">>],
     [str |-> FALSE, text |-> <<>>]}

\* JSON objects whose "desires" is a list, a number, or absent.
ListReplies ==
    {ObjectReply(JsonDesires("list", <<>>, items), files) :
        items \in UNION {[1..n -> ListEntries] : n \in 0..MaxItems},
        files \in {JsonFiles("absent", <<>>), F_NOTES, F_BAD}}
    \cup {ObjectReply(JsonDesires(tag, <<>>, <<>>), files) :
        tag \in {"other", "missing"}, files \in {JsonFiles("absent", <<>>), F_BAD}}

\* Lines a desires text is made of: bullets with "-" and "*", padded, a
\* bullet with no text, a numbered header, free text, a blank line.
NormLines ==
    {<<"-", " ", "x">>, <<" ", "*", " ", " ", "y", " ">>, <<"-", " ">>,
     <<"1", ")", " ", "A">>, <<"z">>, <<>>}

NormTexts ==
    {join(<<NL>>, lines) : lines \in UNION {[1..n -> NormLines] : n \in 0..MaxNormLines}}

\* A desires text as the "desires" string of a JSON object, and as a reply
\* with nothing around it.
TextReplies ==
    {ObjectReply(StrDesires(text), JsonFiles("absent", <<>>)) : text \in NormTexts}
    \cup {TextReply(IF strip(text) = <<>> THEN "blank" ELSE "plain", text) : text \in NormTexts}

ResolveSamples ==
    Replies
    \cup ListReplies
    \cup TextReplies
    \cup {TextReply("undecodable", raw) : raw \in BrokenTexts}
    \cup {TextReply("blank", raw) : raw \in BlankTexts}
    \cup {TextReply("plain", TXT_FRAGMENT)}

ResolveInit ==
    /\ given \in ResolveSamples
    /\ resolution = Unresolved("")
    /\ once_normalized = <<>>
    /\ twice_normalized = <<>>
    /\ rpc = "reply"
    /\ entry = NoEntry /\ encoded = Failure("") /\ decoded = Failure("") /\ cpc = "off"
    /\ ParseIdle
    /\ fs = NoFiles /\ log = <<>> /\ utcnow = 0
    /\ LedgerIdle
    /\ EvoIdle
    /\ HookIdle
    /\ DaemonIdle
    /\ DialogueIdle

\* _parse_response_payload(response)
Resolve ==
    /\ rpc = "reply"
    /\ resolution' = _parse_response_payload(given)
    /\ rpc' = "resolved"
    /\ UNCHANGED <<entry, encoded, decoded, cpc, parse_vars, given, once_normalized,
                   twice_normalized, env_vars, ledger_vars, evo_vars,
                   hook_vars, daemon_vars,
                   dialogue_vars>>

\* _apply_response, line 302: the desires of the payload are normalized.
Normalize ==
    /\ rpc = "resolved" /\ resolution.ok
    /\ once_normalized' = _normalize_desires_text(resolution.payload.desires)
    /\ rpc' = "normalized"
    /\ UNCHANGED <<entry, encoded, decoded, cpc, parse_vars, given, resolution,
                   twice_normalized, env_vars, ledger_vars, evo_vars,
                   hook_vars, daemon_vars,
                   dialogue_vars>>

\* _normalize_desires_text applied to its own result.
NormalizeAgain ==
    /\ rpc = "normalized"
    /\ twice_normalized' = _normalize_desires_text(once_normalized)
    /\ rpc' = "renormalized"
    /\ UNCHANGED <<entry, encoded, decoded, cpc, parse_vars, given, resolution,
                   once_normalized, env_vars, ledger_vars, evo_vars,
                   hook_vars, daemon_vars,
                   dialogue_vars>>

ResolveNext == Resolve \/ Normalize \/ NormalizeAgain

SpecResolve == ResolveInit /\ [][ResolveNext]_vars

(* C18: _parse_response_payload never raises, whatever the reply: it gives   *)
(* either a payload and no reason or no payload and a non-empty reason,      *)
(* never both and never neither; an empty or whitespace-only reply gives a   *)
(* failure.                                                                  *)
C18_ResolverNeverRaises ==
    rpc = "resolved"
        => /\ ~resolution.raised
           /\ resolution.ok => resolution.reason = ""
           /\ ~resolution.ok => (resolution.reason # "" /\ resolution.payload = NoPayload)
           /\ strip(given.raw) = <<>> /\ given.kind = "blank" => ~resolution.ok


\* A reply whose candidate is {"desires" <sep> "<body><tail>.
BrokenDesiresText(sep, body, tail) == <<"{">> \o K_desires \o sep \o <<DQ>> \o body \o tail

CouldNotBeParsed(result) ==
    ~result.ok /\ ~result.raised /\ result.reason = "Response JSON could not be parsed."

(* C20: when a JSON candidate is found and strict decoding fails, the        *)
(* resolver returns the text after the "desires": " fragment, without a      *)
(* trailing quote that may be followed by "," or "}", as the payload, with   *)
(* no files; when the fragment is absent or the recovered text is empty it   *)
(* fails with 'Response JSON could not be parsed.'.  A desires value with a  *)
(* literal newline resolves to a non-empty desires text.  Strict decoding    *)
(* fails when json.loads raises, with JSONDecodeError or with another error. *)
C20_RecoversDesires ==
    (rpc = "resolved" /\ given.kind \in {"undecodable", "unloadable"})
        => /\ fragment_search(strip(given.raw), 1) = 0 => CouldNotBeParsed(resolution)
           /\ ~resolution.ok => CouldNotBeParsed(resolution)
           /\ resolution.ok => /\ resolution.payload.files = <<>>
                               /\ resolution.payload.desires # <<>>
           /\ \A sep \in {<<":", " ">>, <<" ", ":">>},
                 body \in {<<"1", ")", " ", "A">>, <<"1", ")", " ", "A", NL, "b">>},
                 tail \in {<<DQ, "}">>, <<DQ, ",">>, <<DQ, " ", "}", NL>>, <<>>} :
                 given.raw = BrokenDesiresText(sep, body, tail)
                     => (resolution.ok /\ resolution.payload.desires = body)
           /\ \A sep \in {<<":", " ">>, <<" ", ":">>}, tail \in {<<DQ, ",">>, <<>>} :
                 given.raw = BrokenDesiresText(sep, <<>>, tail)
                     => CouldNotBeParsed(resolution)

-----------------------------------------------------------------------------
\* A files value that is no list, or a list with an entry that is no object
\* or lacks a string path or a string content.
BadFiles(files) ==
    \/ files.tag = "other"
    \/ files.tag = "list" /\ \E i \in 1..Len(files.items) : files.items[i].shape # "ok"

-----------------------------------------------------------------------------
\* A text none of whose lines is a numbered header or a bullet item.
Unstructured(text) ==
    \A i \in 1..Len(splitlines(text)) :
        /\ ~header_match(strip(splitlines(text)[i])).matched
        /\ ~bullet_match(splitlines(text)[i]).matched

\* lines as one text in which the first line carries the title "1) <line>" and
\* the others lose their trailing whitespace.
RECURSIVE Continuation(_)
Continuation(lines) ==
    IF lines = <<>> THEN <<>>
    ELSE <<NL>> \o rstrip(Head(lines)) \o Continuation(Tail(lines))

Retitled(text) ==
    <<"1", ")", " ">> \o strip(Head(splitlines(text))) \o Continuation(Tail(splitlines(text)))

(* C21: for every non-empty reply with no JSON object candidate the resolver *)
(* returns a payload, never a failure, and the iteration is never invalid:   *)
(* the reply is taken as desires text, and when it has neither a numbered    *)
(* header nor a bullet its first non-blank line is retitled "1) <line>".     *)
C21_PlainReplyNeverInvalid ==
    [][(Applying /\ response_text.kind = "plain")
          => /\ _parse_response_payload(response_text).ok
             /\ pc' = "cap"
             /\ results'[Len(results')].status \in {"updated", "unchanged"}
             /\ (/\ fragment_search(strip(response_text.raw), 1) = 0
                 /\ Unstructured(strip(response_text.raw)))
                    => IF Retitled(strip(response_text.raw)) = strip(current_desires)
                       THEN results'[Len(results')].status = "unchanged"
                       ELSE /\ results'[Len(results')].status = "updated"
                            /\ fs'[DesiresPath] =
                                   TextFile(Append(Retitled(strip(response_text.raw)), NL))]_vars

\* A reply of two lines of free text ended an iteration as updated, and the
\* desires file starts with "1) f".
C21_Witness ==
    /\ pc = "cap"
    /\ response_text = TextReply("plain", TXT_PROSE)
    /\ results[Len(results)].status = "updated"
    /\ fs[DesiresPath] = TextFile(<<"1", ")", " ", "f", NL, NL, " ", "g", NL>>)

-----------------------------------------------------------------------------
\* "k) s1\n(k+1)) s2\n..." for the texts of items, each trimmed.
RECURSIVE NumberedFrom(_, _)
NumberedFrom(items, k) ==
    IF items = <<>> THEN <<>>
    ELSE str(k) \o <<")", " ">> \o strip(Head(items).text)
         \o (IF Tail(items) = <<>> THEN <<>> ELSE <<NL>> \o NumberedFrom(Tail(items), k + 1))

-----------------------------------------------------------------------------
\* The bullet lines of lines, as entries holding the text after the marker;
\* AllBullets counts a bullet with no text, BulletItems leaves it out.
RECURSIVE AllBullets(_)
AllBullets(lines) ==
    IF lines = <<>> THEN <<>>
    ELSE IF bullet_match(Head(lines)).matched
         THEN <<[text |-> strip(bullet_match(Head(lines)).rest)]>> \o AllBullets(Tail(lines))
         ELSE AllBullets(Tail(lines))

BulletItems(lines) == SelectSeq(AllBullets(lines), LAMBDA item : item.text # <<>>)

\* The desires text normalization was given, trimmed and split into lines.
GivenLines == splitlines(strip(resolution.payload.desires))

\* C23 (as stated): for a desires text with no numbered header and with a
\* line that starts with "-" or "*" followed by whitespace, normalization
\* returns one numbered item per non-empty bullet, in order, numbered from 1
\* and without the marker, for a JSON desires string and for a bare reply.
C23_BulletsAsStated ==
    (/\ rpc \in {"normalized", "renormalized"}
     /\ given.kind \in {"object", "plain"}
     /\ HeaderPositions(GivenLines, 1) = <<>>
     /\ AllBullets(GivenLines) # <<>>)
        => once_normalized = NumberedFrom(BulletItems(GivenLines), 1)

(* C23 (amended): for a desires text with no numbered header and with at     *)
(* least one bullet line ("-" or "*", whitespace) that has text after the    *)
(* marker, normalization returns one numbered item per bullet with text, in  *)
(* order, numbered from 1 and without the marker, for a JSON desires string  *)
(* and for a bare reply alike; lines that are no bullets are dropped.  When  *)
(* no bullet has text the text is handled as free text: its first line is    *)
(* retitled and the bullet markers stay.                                     *)
C23_Bullets ==
    (/\ rpc \in {"normalized", "renormalized"}
     /\ given.kind \in {"object", "plain"}
     /\ HeaderPositions(GivenLines, 1) = <<>>
     /\ AllBullets(GivenLines) # <<>>)
        => IF BulletItems(GivenLines) # <<>>
           THEN once_normalized = NumberedFrom(BulletItems(GivenLines), 1)
           ELSE once_normalized = Retitled(strip(resolution.payload.desires))

\* The bare reply "z\n- x\n * y " was normalized to "1) x\n2) y".
C23_Witness ==
    /\ rpc = "normalized"
    /\ given.kind = "plain"
    /\ given.raw = <<"z", NL, "-", " ", "x", NL, " ", "*", " ", " ", "y", " ">>
    /\ once_normalized = <<"1", ")", " ", "x", NL, "2", ")", " ", "y">>

-----------------------------------------------------------------------------
(* C24: normalization returns a desires text that already parses into at     *)
(* least one Desire as it is, apart from the outer trimming, and it is       *)
(* idempotent: normalizing the normalized text gives the normalized text.    *)
C24_NormalizeStable ==
    /\ (/\ rpc \in {"normalized", "renormalized"}
        /\ parse_desires(strip(resolution.payload.desires)) # <<>>)
           => once_normalized = strip(resolution.payload.desires)
    /\ rpc = "renormalized" => twice_normalized = once_normalized

\* The desires string " 1) A\n" of a JSON reply was normalized twice and
\* came back trimmed and otherwise as it was, both times.
C24_Witness ==
    /\ rpc = "renormalized"
    /\ parse_desires(strip(resolution.payload.desires)) # <<>>
    /\ resolution.payload.desires # strip(resolution.payload.desires)
    /\ once_normalized = strip(resolution.payload.desires)
    /\ twice_normalized = once_normalized

-----------------------------------------------------------------------------
\* How many records of the log have the role.
RoleCount(records, role) == Len(SelectSeq(records, LAMBDA r : r.role = role))

LastRecord(records) == records[Len(records)]

(* C25: in every iteration the user record is in the log before the          *)
(* provider is called, and when the provider has returned, the assistant     *)
(* record is in the log before any file is written: the step that leaves the *)
(* provider call starts from a log that ends with this iteration's user      *)
(* record, and a step that changes a file starts from a log that ends with   *)
(* the assistant record, with every file still as the iteration found it.    *)
C25_LoggedBeforeActing ==
    [][/\ (pc = "call" /\ pc' # "call")
            => /\ log # <<>>
               /\ LastRecord(log).role = "user"
               /\ RoleCount(log, "user") = iteration
       /\ fs' # fs
            => /\ pc = "apply"
               /\ fs = pre
               /\ LastRecord(log).role = "assistant"
               /\ RoleCount(log, "user") = iteration]_vars

\* An iteration has written files, and its log holds the user record and
\* right after it the assistant record.
C25_Witness ==
    /\ pc = "cap"
    /\ fs # pre
    /\ \E i \in 1..(Len(log) - 1) :
          /\ log[i].role = "user"
          /\ log[i + 1].role = "assistant"
          /\ RoleCount(SubSeq(log, 1, i), "user") = iteration

-----------------------------------------------------------------------------
\* The hook file loads: it compiles and binds bootstrap to a function.
Loadable(file) == file.compiles /\ file.binds = "function"

\* A bootstrap hook is configured and its file exists.
HookPresent == bootstrap_path # <<>> /\ hook_file.exists

(* C27: when a bootstrap hook is configured and its file exists, the step    *)
(* that starts an iteration loads the file as it is on disk then and, when   *)
(* it loads, invokes it once, with nothing read, logged or written and the   *)
(* provider not yet called; the desires are read only after this iteration's *)
(* invocation; a file that does not load or a hook that raises ends the loop *)
(* there, and an ended loop starts no further iteration.                     *)
C27_HookEachIteration ==
    [][/\ (HookPresent /\ iteration' = iteration + 1)
            => /\ pc = "iter"
               /\ UNCHANGED <<fs, log, current_desires, response_text, results>>
               /\ IF Loadable(hook_file)
                  THEN /\ Len(hook_calls') = Len(hook_calls) + 1
                       /\ LastRecord(hook_calls').module = hook_file.text
                       /\ LastRecord(hook_calls').context.iteration = iteration'
                       /\ pc' = IF hook_file.raises THEN "raised" ELSE "read"
                  ELSE /\ hook_calls' = hook_calls
                       /\ pc' = "raised"
       /\ hook_calls' # hook_calls => iteration' = iteration + 1
       /\ (HookPresent /\ pc = "read" /\ pc' # "read")
            => /\ hook_calls # <<>>
               /\ LastRecord(hook_calls).context.iteration = iteration
               /\ LastRecord(hook_calls).module = hook_file.text
       /\ pc = "raised" => UNCHANGED <<pc, iteration, hook_calls, results, fs, log>>]_vars

\* A run of two iterations has returned; the provider rewrote the hook file
\* in the first, and the second ran the new version.
C27_Witness ==
    /\ pc = "returned"
    /\ Len(hook_calls) = 2
    /\ hook_calls[1].module = T_V1 /\ hook_calls[1].context.iteration = 1
    /\ hook_calls[2].module = T_V2 /\ hook_calls[2].context.iteration = 2
    /\ Len(results) = 2

\* C28: the context the hook gets in iteration k holds iteration k, the
\* configured desires, ledger, state and session log paths, the directory of
\* the desires file as base_dir, and the caller's source label as source.
C28_ContextAsStated ==
    \A k \in 1..Len(hook_calls) :
        LET context == hook_calls[k].context
        IN  /\ context.iteration <= iteration
            /\ (k > 1 => context.iteration > hook_calls[k - 1].context.iteration)
            /\ context.desires_path = DesiresPath
            /\ context.ledger_path = LedgerPath
            /\ context.state_path = StatePath
            /\ context.session_log_path = SessionLogPath
            /\ context.base_dir = <<"w">>
            /\ context.source = Source

\* Every entry of the context but source is as the caller configured it, and
\* source is the text of the hook file.
C28_ContextButSource ==
    \A k \in 1..Len(hook_calls) :
        LET context == hook_calls[k].context
        IN  /\ context.iteration <= iteration
            /\ (k > 1 => context.iteration > hook_calls[k - 1].context.iteration)
            /\ context.desires_path = DesiresPath
            /\ context.ledger_path = LedgerPath
            /\ context.state_path = StatePath
            /\ context.session_log_path = SessionLogPath
            /\ context.base_dir = <<"w">>
            /\ context.source = hook_calls[k].module

-----------------------------------------------------------------------------
\* The statuses of a list of results, in order.
Statuses(list) == [i \in 1..Len(list) |-> list[i].status]

(* C29: the first pass of a daemon run has status bootstrapped and no later  *)
(* one has; a later pass has status expanded exactly when the signature of   *)
(* the desires file it reads differs from the one the daemon recorded last,  *)
(* and unchanged otherwise; the signature read is recorded whenever the      *)
(* status is not unchanged.                                                  *)
C29_DaemonStatus ==
    [][d_results' # d_results
          => LET result == LastRecord(d_results')
                 signature == _read_signature(fs[DesiresPath])
             IN  /\ d_results' = Append(d_results, result)
                 /\ result.iteration = Len(d_results')
                 /\ result.iteration = 1 <=> result.status = "bootstrapped"
                 /\ result.iteration > 1
                       => /\ result.status \in {"expanded", "unchanged"}
                          /\ result.status = "expanded" <=> <<signature>> # last_signature
                 /\ last_signature' = <<signature>>]_vars

\* The desires file went from one text to TXT_A, away from it and back: the
\* three passes were bootstrapped, expanded and expanded.
C29_Witness ==
    /\ dpc = "returned"
    /\ Statuses(d_results) = <<"bootstrapped", "expanded", "expanded">>
    /\ fs[DesiresPath].text = TXT_A
    /\ d_pre.files[DesiresPath].text = TXT_A
    /\ d_pre.files[LedgerPath] # fs[LedgerPath]

\* What materialize_expansion leaves in the ledger and state files for the
\* desires file as it is.
Rematerialized(files, clock) ==
    materialize_expansion(files, DesiresPath, LedgerPath, StatePath, Source, clock).files

(* C30: a pass with status unchanged writes no file and no record; a pass    *)
(* with status expanded rewrites the ledger and the state from the desires   *)
(* file, touches no other file and writes no record; the bootstrapped pass   *)
(* is the first of the run and adds one record to the interaction log, and   *)
(* no other step of the daemon adds or removes a record.                     *)
C30_DaemonFrame ==
    [][/\ d_results' # d_results
            => LET status == LastRecord(d_results').status
               IN  /\ status = "unchanged" => fs' = fs /\ log' = log
                   /\ status = "expanded"
                        => /\ log' = log
                           /\ fs' = Rematerialized(fs, utcnow')
                           /\ \A p \in Locs \ {LedgerPath, StatePath} : fs'[p] = fs[p]
                   /\ status = "bootstrapped"
                        => /\ d_results = <<>>
                           /\ log' = Append(log, InteractionRecord("system", "bootstrap",
                                                                   NoReply))
       /\ d_results' = d_results => log' = log]_vars

\* A run of three passes has returned after an unchanged and an expanded
\* pass; the log holds the one record of the bootstrap, and the last pass
\* rewrote the ledger and left the log alone.
C30_Witness ==
    /\ dpc = "returned"
    /\ Statuses(d_results) = <<"bootstrapped", "unchanged", "expanded">>
    /\ Len(log) = 1
    /\ d_pre.records = log
    /\ d_pre.files[LedgerPath] # fs[LedgerPath]
    /\ d_pre.files[StatePath] # fs[StatePath]

-----------------------------------------------------------------------------
\* The list holds one result per pass, numbered 1, 2, ... in order, each
\* with a status of the set.
OnePerPass(list, passes, statuses) ==
    /\ Len(list) = passes
    /\ \A i \in 1..Len(list) : list[i].iteration = i /\ list[i].status \in statuses

(* C26: with an iteration cap n and no failure that leaves the loop,         *)
(* run_evolution_loop never starts a pass beyond the n-th, holds one result  *)
(* per finished pass, and returns exactly when the n-th pass is finished,    *)
(* with n results numbered 1..n whose statuses are among updated,            *)
(* unchanged, invalid and error; run_daemon does the same with the statuses  *)
(* bootstrapped, expanded and unchanged.                                     *)
C26_CappedRuns ==
    /\ max_iterations # <<>> => iteration <= max_iterations[1]
    /\ pc \in {"iter", "cap", "returned"}
          => OnePerPass(results, iteration, {"updated", "unchanged", "invalid", "error"})
    /\ (pc = "iter" /\ max_iterations # <<>>) => iteration < max_iterations[1]
    /\ pc = "returned" => max_iterations # <<>> /\ iteration = max_iterations[1]
    /\ d_max_iterations # <<>> => d_iteration <= d_max_iterations[1]
    /\ dpc \in {"iter", "cap", "returned"}
          => OnePerPass(d_results, d_iteration, {"bootstrapped", "expanded", "unchanged"})
    /\ (dpc = "iter" /\ d_max_iterations # <<>>) => d_iteration < d_max_iterations[1]
    /\ dpc = "returned" => d_max_iterations # <<>> /\ d_iteration = d_max_iterations[1]

\* run_evolution_loop has returned from a run with cap 2 whose first pass
\* ended with a provider error.
C26_Witness ==
    /\ pc = "returned"
    /\ max_iterations = <<2>>
    /\ Len(results) = 2
    /\ results[1].status = "error"
    /\ results[2].iteration = 2

-----------------------------------------------------------------------------
(* C31: run_evolution_loop and run_daemon called with an interval that is    *)
(* not positive raise before anything else: the call is still to be made or  *)
(* has raised, no pass was counted, no result produced, the provider gave no *)
(* reply, the hook was not invoked, and the files and the interaction log    *)
(* are as they were before the call.                                         *)
C31_IntervalRejected ==
    /\ (pc # "off" /\ interval <= 0)
          => /\ pc \in {"idle", "raised"}
             /\ iteration = 0 /\ results = <<>>
             /\ response_text = NoReply /\ hook_calls = <<>>
             /\ fs = pre /\ log = <<>>
    /\ (dpc # "off" /\ d_interval <= 0)
          => /\ dpc \in {"idle", "raised"}
             /\ d_iteration = 0 /\ d_results = <<>> /\ last_signature = <<>>
             /\ fs = d_pre.files /\ log = d_pre.records

\* run_evolution_loop was called with interval 0 on existing files and has
\* raised.
C31_Witness ==
    /\ pc = "raised"
    /\ interval = 0
    /\ fs = Bootstrapped
    /\ log = <<>>

\* run_daemon was called with interval 0 and has raised.
C31_DaemonRaised ==
    /\ dpc = "raised"
    /\ d_interval = 0
    /\ fs[DesiresPath].exists
    /\ ~fs[LedgerPath].exists

-----------------------------------------------------------------------------
\* The replies the assistant records of the log hold, in order.
AssistantReplies(records) == SelectSeq(records, LAMBDA r : r.role = "assistant")

\* The iteration applies the reply the iteration before it got, and that
\* iteration ended with status updated or unchanged.
Repeated ==
    /\ Applying
    /\ results # <<>>
    /\ LastRecord(results).iteration = iteration - 1
    /\ LastRecord(results).status \in {"updated", "unchanged"}
    /\ Len(AssistantReplies(log)) >= 2
    /\ AssistantReplies(log)[Len(AssistantReplies(log)) - 1].reply = response_text

\* C32: when an iteration ended with status updated or unchanged and the
\* provider returns the same reply in the iteration right after it, that
\* iteration ends with status unchanged and leaves the desires, ledger and
\* state files as they were.
C32_RepeatUnchanged ==
    [][Repeated
          => /\ pc' = "cap"
             /\ LastRecord(results').status = "unchanged"
             /\ fs'[DesiresPath] = fs[DesiresPath]
             /\ fs'[LedgerPath] = fs[LedgerPath]
             /\ fs'[StatePath] = fs[StatePath]]_vars

\* The same for replies none of whose files entries names the desires, the
\* ledger or the state file.
C32_RepeatUnmanaged ==
    [][( /\ Repeated
         /\ \A path \in {DesiresPath, LedgerPath, StatePath} :
                Unnamed(_parse_response_payload(response_text).payload.files, path) )
          => /\ pc' = "cap"
             /\ LastRecord(results').status = "unchanged"
             /\ fs'[DesiresPath] = fs[DesiresPath]
             /\ fs'[LedgerPath] = fs[LedgerPath]
             /\ fs'[StatePath] = fs[StatePath]]_vars

\* An updated iteration was followed by an unchanged one with the same reply.
C32_Repeated ==
    /\ pc = "cap"
    /\ Len(results) = 2
    /\ results[1].status = "updated"
    /\ results[2].status = "unchanged"
    /\ Len(AssistantReplies(log)) = 2
    /\ AssistantReplies(log)[1] = AssistantReplies(log)[2]
    /\ fs[DesiresPath] = pre[DesiresPath]

-----------------------------------------------------------------------------
\* run_dialogue_turn has returned or raised and main has not gone on yet.
TurnOver == turn_pc \in {"returned", "raised"}

\* The call failed before the provider was called: no prompt was built.
FailedEarly == turn_pc = "raised" /\ turn_prompt = <<>>

\* The two records of a call that got to the provider: the user message,
\* then the reply or the failure.
TwoRecords ==
    /\ Len(log) = Len(turn_pre) + 2
    /\ SubSeq(log, 1, Len(turn_pre)) = turn_pre
    /\ log[Len(turn_pre) + 1] = LastRecord(record_text(<<>>, "user", turn_args.message))
    /\ turn_pc = "returned"
          => /\ ~turn_out.failed
             /\ LastRecord(log) = LastRecord(record_text(<<>>, "assistant", turn_out.response))
    /\ turn_pc = "raised"
          => /\ turn_out.failed
             /\ LastRecord(log) = InteractionRecord("system", "Dialogue error", NoReply)

\* The prompt is the system message, the history taken from the log as it
\* was before the call, and the current message, once, at the end.
PromptFromBefore ==
    /\ Len(turn_prompt) = Len(history_of(turn_pre, turn_args.history_limit)) + 2
    /\ SubSeq(turn_prompt, 2, Len(turn_prompt) - 1)
           = history_of(turn_pre, turn_args.history_limit)
    /\ LastRecord(turn_prompt) = Message("user", turn_args.message)
    /\ turn_prompt[1].role = "system"

\* C33 (as stated): every call of run_dialogue_turn appends exactly two
\* records to the log, the user message and then the assistant reply (the
\* reply is returned) or a system Dialogue error record (the failure is
\* raised again), and the prompt holds the current message once.
C33_TwoRecordsAsStated == TurnOver => TwoRecords /\ PromptFromBefore

(* C33 (amended): a call of run_dialogue_turn that fails before the provider *)
(* is called (negative history_limit, state file that is not JSON) appends   *)
(* nothing to the log; every other call appends exactly two records, the     *)
(* user message and then the assistant reply (the reply is returned) or a    *)
(* system Dialogue error record (the failure is raised again), and its       *)
(* prompt was built from the log as it was before the user record.           *)
C33_TwoRecords ==
    TurnOver => IF FailedEarly
                THEN log = turn_pre /\ turn_out.failed
                ELSE TwoRecords /\ PromptFromBefore

\* The second call, with a history of two records, got a reply: the log has
\* four records and the prompt has the system message, the two records of
\* the first call and the message.
C33_Witness ==
    /\ turn_pc = "returned"
    /\ turns = 2
    /\ Len(turn_pre) = 2
    /\ Len(log) = 4
    /\ Len(turn_prompt) = 4
    /\ log[3].role = "user"
    /\ log[4].role = "assistant"

-----------------------------------------------------------------------------
\* C34: when the provider fails with LmStudioRequestError during the dialogue
\* command, main returns exit code 1 with the message on stderr and the
\* failure does not leave main; when the provider returns, main returns 0.
C34_ProviderErrorExitCode ==
    /\ turn_pc \in {"exited", "propagated"} /\ turn_out.error = "LmStudioRequestError"
          => /\ turn_pc = "exited"
             /\ turn_out.exit_code = <<1>>
             /\ turn_out.stderr # ""
    /\ turn_pc \in {"exited", "propagated"} /\ ~turn_out.failed
          => turn_pc = "exited" /\ turn_out.exit_code = <<0>>

\* What main does with the outcome of the turn: it returns 0 for a reply,
\* and every failure leaves it.
C34_ExitCodeOrFailure ==
    /\ turn_pc = "exited" => ~turn_out.failed /\ turn_out.exit_code = <<0>>
    /\ turn_pc = "propagated" => turn_out.failed /\ turn_out.exit_code = <<>>
    /\ turn_pc \in {"exited", "propagated"} /\ ~turn_out.failed => turn_pc = "exited"

-----------------------------------------------------------------------------
\* The resolver runs and the evolution loop side by side: a behaviour is a
\* reply resolved and normalized (evolution.py, lines 341-484), or a run of
\* run_evolution_loop (lines 45-185).
RepliesInit == ResolveInit \/ Init

RepliesNext == ResolveNext \/ Next

SpecReplies == RepliesInit /\ [][RepliesNext]_vars

-----------------------------------------------------------------------------
\* The reply under application resolves to a payload with non-blank desires
\* and a files entry whose destination is outside the desires directory.
GuardRejects ==
    /\ _parse_response_payload(response_text).ok
    /\ strip(_normalize_desires_text(
                 _parse_response_payload(response_text).payload.desires)) # <<>>
    /\ ~AllInside(_parse_response_payload(response_text).payload.files)

(* C36: when the write guard rejects a reply, nothing of that reply has been *)
(* applied: at the moment the failure is raised the desires file, the ledger *)
(* file, the state file and the destinations of the other files entries are  *)
(* as they were before the reply was applied.                                *)
C36_RejectedNothingApplied ==
    [][(Applying /\ GuardRejects /\ pc' = "raised") => fs' = fs]_vars

\* What the rejection does leave alone: the ledger file and the state file,
\* when no files entry before the rejected one names them.
C36_RejectedNotMaterialized ==
    [][(/\ Applying /\ GuardRejects /\ pc' = "raised"
        /\ Unnamed(_parse_response_payload(response_text).payload.files, LedgerPath)
        /\ Unnamed(_parse_response_payload(response_text).payload.files, StatePath))
          => /\ fs'[LedgerPath] = fs[LedgerPath]
             /\ fs'[StatePath] = fs[StatePath]]_vars

-----------------------------------------------------------------------------
(* chorus/daemon.py: run_daemon beside a writer of the desires file that is  *)
(* not kept to the daemon's sleep: a pass is the read of the signature       *)
(* (line 40) and then the rest of the pass (lines 41-71), which reads the    *)
(* desires file again when it materializes (expansion.py, line 96).          *)

\* lines 41-63, for the signature read at line 40.
daemon_after_signature(files, records, last, signature, clock) ==
    IF <<signature>> # last
    THEN daemon_changed(files, records, last, signature, clock)
    ELSE Pass(FALSE, "unchanged", isoformat(clock), files, records, last)

\* lines 39-40: the pass is counted and the signature of the desires file is
\* read; a desires file that does not exist raises.
DaemonReadSignature ==
    /\ dpc = "iter" /\ d_iteration < MaxDaemonIter
    /\ d_iteration' = d_iteration + 1
    /\ d_pre' = [files |-> fs, records |-> log]
    /\ IF fs[DesiresPath].exists
       THEN dpc' = "signed" /\ d_signature' = <<_read_signature(fs[DesiresPath])>>
       ELSE dpc' = "raised" /\ UNCHANGED d_signature
    /\ UNCHANGED <<entry, encoded, decoded, cpc, parse_vars, resolve_vars, hook_vars,
                   env_vars, ledger_vars, evo_vars, d_interval, d_max_iterations,
                   last_signature, d_results, dialogue_vars>>

\* lines 41-71
DaemonExpand ==
    /\ dpc = "signed"
    /\ utcnow' = utcnow + 1
    /\ PassedAs(daemon_after_signature(fs, log, last_signature, d_signature[1], utcnow + 1),
                d_iteration)
    /\ UNCHANGED <<entry, encoded, decoded, cpc, parse_vars, resolve_vars, hook_vars,
                   ledger_vars, evo_vars, d_interval, d_max_iterations, d_iteration,
                   d_pre, d_signature, dialogue_vars>>

\* The other program writes the desires file anew, between any two steps of
\* a running daemon.
WriterEdits ==
    /\ dpc \in {"iter", "signed", "cap"}
    /\ \E text \in DaemonTexts :
          /\ fs[DesiresPath] # TextFile(text)
          /\ fs' = [fs EXCEPT ![DesiresPath] = TextFile(text)]
    /\ UNCHANGED <<entry, encoded, decoded, cpc, parse_vars, resolve_vars, hook_vars,
                   log, utcnow, ledger_vars, evo_vars, daemon_vars, dialogue_vars>>

RaceNext ==
    \/ DaemonRejectInterval
    \/ DaemonStart
    \/ DaemonReadSignature
    \/ DaemonExpand
    \/ DaemonCap
    \/ WriterEdits

SpecRace == DaemonInit /\ [][RaceNext]_vars

\* The ledger file and the state file are what materialize_expansion writes,
\* at some time, for the desires file of before.
MaterializedFrom(before, files) ==
    \E clock \in 0..(MaxDaemonIter + 1) :
        /\ files[LedgerPath] = Rematerialized(before, clock)[LedgerPath]
        /\ files[StatePath] = Rematerialized(before, clock)[StatePath]

(* C37: with a writer that may change the desires file between any two steps *)
(* of the daemon, whenever a pass reports unchanged the ledger file and the  *)
(* state file are the materialization of the desires text that was there     *)
(* when the pass read its signature.                                         *)
C37_UnchangedIsMaterialized ==
    [][(d_results' # d_results /\ LastRecord(d_results').status = "unchanged")
          => MaterializedFrom(d_pre'.files, fs')]_vars

\* The pass of the second of two unchanged passes in a row, in a run where
\* the writer edits while the daemon sleeps.
C37_Unchanged ==
    /\ Len(d_results) = 3
    /\ Statuses(d_results) = <<"bootstrapped", "unchanged", "unchanged">>

-----------------------------------------------------------------------------
\* The state file holds the desires of the desires file and their number,
\* and the ledger file the entries build_expansion_ledger makes of them, at
\* some time.
Consistent(files) ==
    /\ files[DesiresPath].exists
    /\ files[StatePath].exists
    /\ files[StatePath].kind = "json"
    /\ files[StatePath].json.desires = parse_desires(files[DesiresPath].text)
    /\ files[StatePath].json.desire_count = Len(parse_desires(files[DesiresPath].text))
    /\ \E clock \in 0..(MaxIter + 1) :
          files[LedgerPath] =
              TextFile(ledger_file_text(
                  build_expansion_ledger(parse_desires(files[DesiresPath].text), Source,
                                         clock).entries))

\* The reply under application has no files entry.
WithoutFiles ==
    \/ ~_parse_response_payload(response_text).ok
    \/ _parse_response_payload(response_text).payload.files = <<>>

(* C38: if state and ledger are the materialization of the desires file when *)
(* an iteration starts, no hook is configured and the reply has no files     *)
(* entry, then when the iteration has its result, whatever the status, the   *)
(* desires and desire_count of the state and the entries of the ledger are   *)
(* again the materialization of the desires file.                            *)
C38_StaysConsistent ==
    [][(/\ results' # results
        /\ bootstrap_path = <<>>
        /\ Consistent(pre)
        /\ LastRecord(results').status = "error" \/ (Applying /\ WithoutFiles))
          => Consistent(fs')]_vars

\* The second iteration of a run was updated by a reply without files: the
\* files were consistent before it, the desires file changed, and they are
\* consistent after it.
C38_Witness ==
    /\ pc = "cap"
    /\ Len(results) = 2
    /\ results[2].status = "updated"
    /\ WithoutFiles
    /\ Consistent(pre)
    /\ pre[DesiresPath] # fs[DesiresPath]
    /\ Consistent(fs)

-----------------------------------------------------------------------------
(* chorus/ledger.py: a Ledger made from an iterable of entries and then      *)
(* used by its caller.                                                       *)

\* Ledger.__init__ (lines 73-76): the entries are listed and each is
\* validated; the first invalid one raises.
__init__(entries) ==
    [raised |-> \E i \in 1..Len(entries) : ~validate(entries[i]), entries |-> entries]

\* ledger = Ledger(batch), before anything else is done; when it raises
\* there is no new Ledger and the caller goes on with an empty one.
LedgerNew ==
    /\ lop = Did("none", FALSE)
    /\ \E batch \in BatchSamples :
          /\ Len(batch) <= MaxEntries
          /\ lop' = Did("Ledger", __init__(batch).raised)
          /\ _entries' = IF __init__(batch).raised THEN _entries ELSE __init__(batch).entries
    /\ UNCHANGED <<codec_vars, env_vars, candidate, returned, view, evo_vars>>

HeldNext ==
    \/ LedgerNew
    \/ Construct
    \/ LedgerAppend
    \/ AppendToFile
    \/ LedgerExtend
    \/ GetEntries
    \/ MutateView

SpecHeld == LedgerInit /\ [][HeldNext]_vars

\* The LedgerEntry invariant: the type is one of the allowed ones and no
\* field is empty.
SatisfiesInvariant(e) ==
    /\ e.type \in {T_FACT, T_PREF, T_PROJECT, T_DECISION, T_WARNING, T_TODO, T_PATCH,
                   T_ASSUMPTION}
    /\ e.ts # <<>> /\ e.topic # <<>> /\ e.content # <<>> /\ e.source # <<>>

(* C39: Ledger.append and Ledger.append_to_file called with an entry that    *)
(* breaks the LedgerEntry invariant raise, leave the entries of the Ledger   *)
(* as they were and write nothing to any file; and after every Ledger        *)
(* operation, the constructor and extend included, every entry the Ledger    *)
(* holds satisfies the invariant.                                            *)
C39_RejectedAppend ==
    [][/\ (/\ lop'.op \in {"append", "append_to_file"}
           /\ ~SatisfiesInvariant(candidate))
              => /\ lop'.raised
                 /\ _entries' = _entries
                 /\ fs' = fs
       /\ \A i \in 1..Len(_entries') : SatisfiesInvariant(_entries'[i])]_vars

\* A Ledger made from one valid entry refused an entry with an empty
\* content in append_to_file: it holds the one entry and there is no
\* ledger file.
C39_Witness ==
    /\ lop = Did("append_to_file", TRUE)
    /\ candidate = E_BLANK
    /\ _entries = <<E_PREF>>
    /\ ~fs[LedgerPath].exists

=============================================================================
